---- MODULE Spec2Model ----
(***************************************************************************)
(* A model of the rustable label-indexing core: Index<L> (an ordered,      *)
(* duplicate-free label collection backed by indexmap::IndexSet) and       *)
(* Series<L, V> (an Index paired with a parallel Vec of values).           *)
(*                                                                         *)
(* Option<T> is modelled as a sequence: None is <<>> and Some(x) is <<x>>. *)
(* Positions are zero-based, as in the source; TLA+ sequences are          *)
(* one-based, so position p of an Index is element p + 1 of its sequence.  *)
(***************************************************************************)
EXTENDS Integers, Sequences, FiniteSets, TLC

\* ------------------------------------------------------------------ bounds

\* Labels stored in an Index are 1..MaxLabel.
MaxLabel == 3
\* Longest argument list handed to a constructor or a *_multi lookup.
MaxLen == 3
\* Raw values stored in a Series are 1..MaxVal.
MaxVal == 2
\* Width of usize in the model: positions are 0..UsizeMax.
UsizeMax == 5

Labels == 1..MaxLabel
\* Labels a caller may ask for: every storable label and one never stored.
QLabels == 1..(MaxLabel + 1)
\* Positions a caller may ask for in a *_multi lookup (MaxLabel is never valid).
QPos == 0..MaxLabel
\* Positions a caller may put in a range bound.
RPos == 0..UsizeMax

\* All sequences over S of length at most n.
SeqUpTo(S, n) == UNION {[1..k -> S] : k \in 0..n}

\* ------------------------------------------------------------ Option<T>

None == <<>>
Some(x) == <<x>>
IsSome(o) == Len(o) = 1
Unwrap(o) == o[1]

\* Iterator::collect::<Option<Vec<_>>>(): None as soon as one item is None,
\* otherwise Some of the unwrapped items in order.
collect_option(items) ==
    IF \E i \in 1..Len(items) : items[i] = None
    THEN None
    ELSE Some([i \in 1..Len(items) |-> Unwrap(items[i])])

\* usize::checked_add(1)
checked_add_one(x) == IF x >= UsizeMax THEN None ELSE Some(x + 1)

\* start..end as the sequence of its positions (empty when start >= end).
RangeSeq(s, e) == [i \in 1..(IF e > s THEN e - s ELSE 0) |-> s + i - 1]

\* ------------------------------------------------- IndexSet<L> (indexmap)

\* IndexSet::contains
IndexSet_contains(ix, label) == \E i \in 1..Len(ix) : ix[i] = label

\* IndexSet::get_index_of: the position of the entry equal to label.
IndexSet_get_index_of(ix, label) ==
    IF IndexSet_contains(ix, label)
    THEN Some((CHOOSE i \in 1..Len(ix) : ix[i] = label) - 1)
    ELSE None

\* IndexSet::get_index
IndexSet_get_index(ix, pos) == IF pos < Len(ix) THEN Some(ix[pos + 1]) ELSE None

\* IndexSet::get: the stored entry equal to label.
IndexSet_get(ix, label) ==
    IF IndexSet_contains(ix, label)
    THEN Some(ix[CHOOSE i \in 1..Len(ix) : ix[i] = label])
    ELSE None

\* Mutant of IndexSet_insert: appends without looking for the key.
IndexSet_insert_unchecked(ix, key) == [set |-> Append(ix, key), inserted |-> TRUE]

\* IndexSet::insert: appends when absent; the result says whether it did.
IndexSet_insert(ix, key) ==
    IF IndexSet_contains(ix, key)
    THEN [set |-> ix, inserted |-> FALSE]
    ELSE [set |-> Append(ix, key), inserted |-> TRUE]

\* Iterator::collect::<IndexSet<_>>(): insert every item in order.
RECURSIVE IndexSet_from_iter(_, _)
IndexSet_from_iter(acc, items) ==
    IF items = <<>> THEN acc
    ELSE IndexSet_from_iter(IndexSet_insert(acc, Head(items)).set, Tail(items))

\* ------------------------------------------------------------- orderings

\* Ord::cmp on labels.
Ord_cmp(a, b) == IF a < b THEN "Less" ELSE IF a = b THEN "Equal" ELSE "Greater"

\* The comparison functions a caller passes to sort_by.
Comparators == {"cmp", "rev"}
Compare(c, a, b) == IF c = "cmp" THEN Ord_cmp(a, b) ELSE Ord_cmp(b, a)

\* The key functions a caller passes to sort_by_key.
KeyFns == {"ident", "parity"}
GetKey(k, l) == IF k = "ident" THEN l ELSE l % 2

\* What a sort compares by: a comparison function or a key function.
ByCompare(c) == [by |-> "compare", f |-> c]
ByKey(k) == [by |-> "key", f |-> k]
OrderOf(o, a, b) ==
    IF o.by = "compare" THEN Compare(o.f, a, b)
    ELSE Ord_cmp(GetKey(o.f, a), GetKey(o.f, b))

\* A stable sort (slice::sort_by, IndexSet::sort_by): insertion from the left,
\* each item placed after the already placed items that are not Greater.
InsertSorted(sorted, x, o) ==
    LET n == Cardinality({i \in 1..Len(sorted) : OrderOf(o, sorted[i], x) # "Greater"})
    IN SubSeq(sorted, 1, n) \o <<x>> \o SubSeq(sorted, n + 1, Len(sorted))

RECURSIVE StableSort(_, _, _)
StableSort(acc, rest, o) ==
    IF rest = <<>> THEN acc
    ELSE StableSort(InsertSorted(acc, Head(rest), o), Tail(rest), o)

\* -------------------------------------------------------------- Index<L>

Index_new == <<>>

\* Index::with_capacity(capacity): an empty Index; the capacity is storage only.
Index_with_capacity(capacity) == Index_new

Index_len(ix) == Len(ix)

Index_contains(ix, label) == IndexSet_contains(ix, label)

\* Mutant of Index_push: a new key goes to the front.
Index_push_front(ix, key) ==
    IF IndexSet_contains(ix, key)
    THEN [set |-> ix, inserted |-> FALSE]
    ELSE [set |-> <<key>> \o ix, inserted |-> TRUE]

Index_push(ix, key) == IndexSet_insert(ix, key)

Index_from_iter(items) == IndexSet_from_iter(<<>>, items)

\* Mutant of Index_to_nodule: the position is not compared with the length.
Index_to_nodule_unchecked(ix, idx) == Some(idx)

\* Mutant of Index_to_nodule: the position len itself is refused.
Index_to_nodule_strict(ix, idx) == IF idx < Index_len(ix) THEN Some(idx) ELSE None

Index_to_nodule(ix, idx) == IF idx <= Index_len(ix) THEN Some(idx) ELSE None

\* Mutant of Index_index_of: positions counted from one.
Index_index_of_one_based(ix, label) ==
    IF IndexSet_contains(ix, label)
    THEN Some(CHOOSE i \in 1..Len(ix) : ix[i] = label)
    ELSE None

Index_index_of(ix, label) == IndexSet_get_index_of(ix, label)

Index_iloc(ix, pos) == IndexSet_get_index(ix, pos)

Index_loc(ix, label) == IndexSet_get(ix, label)

\* Mutant of Index_iloc_multi: invalid positions are skipped (filter_map).
Index_iloc_multi_skipping(ix, pos_iter) ==
    LET valid == SelectSeq(pos_iter, LAMBDA q : q < Len(ix))
    IN Some([i \in 1..Len(valid) |-> ix[valid[i] + 1]])

Index_iloc_multi(ix, pos_iter) ==
    collect_option([i \in 1..Len(pos_iter) |-> Index_iloc(ix, pos_iter[i])])

Index_loc_multi(ix, labels) ==
    collect_option([i \in 1..Len(labels) |-> Index_loc(ix, labels[i])])

\* std::ops::Bound<T>
Included(x) == [kind |-> "Included", v |-> x]
Excluded(x) == [kind |-> "Excluded", v |-> x]
Unbounded == [kind |-> "Unbounded", v |-> 0]
BoundsOver(S) == {Included(x) : x \in S} \cup {Excluded(x) : x \in S} \cup {Unbounded}

iloc_range_start_nodule(ix, sb) ==
    LET next == checked_add_one(sb.v)
    IN CASE sb.kind = "Included" -> Index_to_nodule(ix, sb.v)
         [] sb.kind = "Excluded" ->
                IF IsSome(next) THEN Index_to_nodule(ix, Unwrap(next)) ELSE None
         [] sb.kind = "Unbounded" -> Some(0)

\* Mutant of iloc_range_close_nodule: an included end is not stepped past.
iloc_range_close_nodule_short(ix, eb) ==
    CASE eb.kind = "Included" -> Index_to_nodule(ix, eb.v)
      [] eb.kind = "Excluded" -> Index_to_nodule(ix, eb.v)
      [] eb.kind = "Unbounded" -> Some(Len(ix))

iloc_range_close_nodule(ix, eb) ==
    LET next == checked_add_one(eb.v)
    IN CASE eb.kind = "Included" ->
                IF IsSome(next) THEN Index_to_nodule(ix, Unwrap(next)) ELSE None
         [] eb.kind = "Excluded" -> Index_to_nodule(ix, eb.v)
         [] eb.kind = "Unbounded" -> Some(Index_len(ix))

Index_iloc_range(ix, sb, eb) ==
    LET start_nodule == iloc_range_start_nodule(ix, sb)
        close_nodule == iloc_range_close_nodule(ix, eb)
    IN IF start_nodule = None \/ close_nodule = None THEN None
       ELSE LET ps == RangeSeq(Unwrap(start_nodule), Unwrap(close_nodule))
            IN collect_option([i \in 1..Len(ps) |-> Index_iloc(ix, ps[i])])

\* loc_range's translation of one label bound into a position bound.
loc_range_bound(ix, b) ==
    IF b.kind = "Unbounded" THEN Some(Unbounded)
    ELSE LET pos == Index_index_of(ix, b.v)
         IN IF pos = None THEN None
            ELSE Some([kind |-> b.kind, v |-> Unwrap(pos)])

Index_loc_range(ix, sb, eb) ==
    LET start_bound == loc_range_bound(ix, sb)
        close_bound == loc_range_bound(ix, eb)
    IN IF start_bound = None \/ close_bound = None THEN None
       ELSE Index_iloc_range(ix, Unwrap(start_bound), Unwrap(close_bound))

\* Mutant of Index_reverse: the first label goes to the end.
Index_reverse_rotate(ix) == IF ix = <<>> THEN ix ELSE Append(Tail(ix), Head(ix))

Index_reverse(ix) == [i \in 1..Len(ix) |-> ix[Len(ix) + 1 - i]]

Index_sort_by(ix, c) == StableSort(<<>>, ix, ByCompare(c))

\* Mutant of Index_sort: descending.
Index_sort_descending(ix) == Index_sort_by(ix, "rev")

Index_sort(ix) == Index_sort_by(ix, "cmp")

Index_sort_by_key(ix, k) == StableSort(<<>>, ix, ByKey(k))

Index_clear(ix) == <<>>

\* --------------------------------------- lazy lookups (index/iter.rs)

\* ILocMulti(iter, index) and LocMulti(iter, index): the keys not yet consumed.
\* next() and next_back() give [item, keys]: item is None when the keys are
\* used up, otherwise Some of the lookup of the key taken.
\* Mutant of ILocMulti_next: an invalid key ends the iteration (`?` on the
\* lookup instead of on the key).
ILocMulti_next_fused(ix, keys) ==
    IF keys = <<>> THEN [item |-> None, keys |-> keys]
    ELSE IF Head(keys) >= Len(ix) THEN [item |-> None, keys |-> Tail(keys)]
    ELSE [item |-> Some(Some(ix[Head(keys) + 1])), keys |-> Tail(keys)]

ILocMulti_next(ix, keys) ==
    IF keys = <<>> THEN [item |-> None, keys |-> keys]
    ELSE [item |-> Some(Index_iloc(ix, Head(keys))), keys |-> Tail(keys)]

ILocMulti_next_back(ix, keys) ==
    IF keys = <<>> THEN [item |-> None, keys |-> keys]
    ELSE [item |-> Some(Index_iloc(ix, keys[Len(keys)])),
          keys |-> SubSeq(keys, 1, Len(keys) - 1)]

LocMulti_next(ix, keys) ==
    IF keys = <<>> THEN [item |-> None, keys |-> keys]
    ELSE [item |-> Some(Index_loc(ix, Head(keys))), keys |-> Tail(keys)]

LocMulti_next_back(ix, keys) ==
    IF keys = <<>> THEN [item |-> None, keys |-> keys]
    ELSE [item |-> Some(Index_loc(ix, keys[Len(keys)])),
          keys |-> SubSeq(keys, 1, Len(keys) - 1)]

\* ILocRange(Range<usize>, &index).  new() resolves the bounds to start..end
\* and fails only when a bound cannot be stepped past (checked_add).
ILocRange_new(sb, eb, ix) ==
    LET start_idx == CASE sb.kind = "Included" -> Some(sb.v)
                       [] sb.kind = "Excluded" -> checked_add_one(sb.v)
                       [] sb.kind = "Unbounded" -> Some(0)
        close_idx == CASE eb.kind = "Included" -> checked_add_one(eb.v)
                       [] eb.kind = "Excluded" -> Some(eb.v)
                       [] eb.kind = "Unbounded" -> Some(Index_len(ix))
    IN IF start_idx = None \/ close_idx = None THEN None
       ELSE Some([start |-> Unwrap(start_idx), end |-> Unwrap(close_idx)])

\* <ILocRange as Iterator>::next: Range<usize>::next
ILocRange_next(r) ==
    IF r.start < r.end
    THEN [item |-> Some(r.start), it |-> [r EXCEPT !.start = @ + 1]]
    ELSE [item |-> None, it |-> r]

\* <ILocRange as DoubleEndedIterator>::next_back: Range<usize>::next_back
ILocRange_next_back(r) ==
    IF r.start < r.end
    THEN [item |-> Some(r.end - 1), it |-> [r EXCEPT !.end = @ - 1]]
    ELSE [item |-> None, it |-> r]

\* ------------------------------------------ bloc, arg_sort and is_sorted

\* bools.zip(self.iter()).filter_map(|(b, l)| if b { Some(l) } else { None })
RECURSIVE bloc_filter_map(_, _, _)
bloc_filter_map(bools, labels, acc) ==
    IF bools = <<>> \/ labels = <<>> THEN acc
    ELSE bloc_filter_map(Tail(bools), Tail(labels),
                         IF Head(bools) THEN Append(acc, Head(labels)) ELSE acc)

\* Mutant of Index_bloc: the lengths are not compared, the zip stops at the
\* shorter of the two.
Index_bloc_unchecked_len(ix, bools) == Some(bloc_filter_map(bools, ix, <<>>))

Index_bloc(ix, bools) ==
    IF Len(bools) # Index_len(ix) THEN None
    ELSE Some(bloc_filter_map(bools, ix, <<>>))

\* Mutant of ArgInsertSorted: a position goes ahead of the placed positions
\* whose labels compare Equal to its own.
ArgInsertSorted_before_equal(ix, sorted, p, o) ==
    LET LabelAt(q) == Unwrap(Index_iloc(ix, q))
        n == Cardinality({i \in 1..Len(sorted) :
                             OrderOf(o, LabelAt(sorted[i]), LabelAt(p)) = "Less"})
    IN SubSeq(sorted, 1, n) \o <<p>> \o SubSeq(sorted, n + 1, Len(sorted))

\* indices.sort_by(|&a, &b| compare(iloc(a).unwrap(), iloc(b).unwrap())):
\* the stable sort of InsertSorted, on positions compared by their labels.
ArgInsertSorted(ix, sorted, p, o) ==
    LET LabelAt(q) == Unwrap(Index_iloc(ix, q))
        n == Cardinality({i \in 1..Len(sorted) :
                             OrderOf(o, LabelAt(sorted[i]), LabelAt(p)) # "Greater"})
    IN SubSeq(sorted, 1, n) \o <<p>> \o SubSeq(sorted, n + 1, Len(sorted))

RECURSIVE ArgStableSort(_, _, _, _)
ArgStableSort(ix, acc, rest, o) ==
    IF rest = <<>> THEN acc
    ELSE ArgStableSort(ix, ArgInsertSorted(ix, acc, Head(rest), o), Tail(rest), o)

Index_arg_sort_impl(ix, o) == ArgStableSort(ix, <<>>, RangeSeq(0, Index_len(ix)), o)

Index_arg_sort(ix) == Index_arg_sort_impl(ix, ByCompare("cmp"))

Index_arg_sort_by(ix, c) == Index_arg_sort_impl(ix, ByCompare(c))

Index_arg_sort_by_key(ix, k) == Index_arg_sort_impl(ix, ByKey(k))

\* IsSorted::is_sorted: no label is Greater than the one after it.
Index_is_sorted(ix) ==
    \A i \in 1..(Len(ix) - 1) : Ord_cmp(ix[i], ix[i + 1]) # "Greater"

\* ------------------------------------------- set algebra (index/iter.rs)

\* Diff(iter, other): the labels of the first Index not yet visited and the
\* second Index.  next() gives [item, it].
Diff_new(index_a, index_b) == [iter |-> index_a, other |-> index_b]

\* Mutant of Diff_next: gives the labels the other Index contains.
RECURSIVE Diff_next_containing(_)
Diff_next_containing(d) ==
    IF d.iter = <<>> THEN [item |-> None, it |-> d]
    ELSE LET label == Head(d.iter)
             rest == [d EXCEPT !.iter = Tail(d.iter)]
         IN IF Index_contains(d.other, label)
            THEN [item |-> Some(label), it |-> rest]
            ELSE Diff_next_containing(rest)

RECURSIVE Diff_next(_)
Diff_next(d) ==
    IF d.iter = <<>> THEN [item |-> None, it |-> d]
    ELSE LET label == Head(d.iter)
             rest == [d EXCEPT !.iter = Tail(d.iter)]
         IN IF ~Index_contains(d.other, label)
            THEN [item |-> Some(label), it |-> rest]
            ELSE Diff_next(rest)

\* The labels not yet visited without their last one.
Front(items) == SubSeq(items, 1, Len(items) - 1)

\* Mutant of Diff_next_back: the other Index is not consulted.
Diff_next_back_unfiltered(d) ==
    IF d.iter = <<>> THEN [item |-> None, it |-> d]
    ELSE [item |-> Some(d.iter[Len(d.iter)]), it |-> [d EXCEPT !.iter = Front(d.iter)]]

\* <Diff as DoubleEndedIterator>::next_back
RECURSIVE Diff_next_back(_)
Diff_next_back(d) ==
    IF d.iter = <<>> THEN [item |-> None, it |-> d]
    ELSE LET label == d.iter[Len(d.iter)]
             rest == [d EXCEPT !.iter = Front(d.iter)]
         IN IF ~Index_contains(d.other, label)
            THEN [item |-> Some(label), it |-> rest]
            ELSE Diff_next_back(rest)

Inter_new(index_a, index_b) == [iter |-> index_a, other |-> index_b]

RECURSIVE Inter_next(_)
Inter_next(d) ==
    IF d.iter = <<>> THEN [item |-> None, it |-> d]
    ELSE LET label == Head(d.iter)
             rest == [d EXCEPT !.iter = Tail(d.iter)]
         IN IF Index_contains(d.other, label)
            THEN [item |-> Some(label), it |-> rest]
            ELSE Inter_next(rest)

\* <Inter as DoubleEndedIterator>::next_back
RECURSIVE Inter_next_back(_)
Inter_next_back(d) ==
    IF d.iter = <<>> THEN [item |-> None, it |-> d]
    ELSE LET label == d.iter[Len(d.iter)]
             rest == [d EXCEPT !.iter = Front(d.iter)]
         IN IF Index_contains(d.other, label)
            THEN [item |-> Some(label), it |-> rest]
            ELSE Inter_next_back(rest)

\* SymDiff(Chain<Diff, Diff>).  A chain holds each half while it may still
\* give items: next() drops the first half once that has run out and goes
\* on with the second; next_back() drops the second half once that has run
\* out and goes on with the first.
SymDiff_new(index_a, index_b) ==
    [a |-> Some(Diff_new(index_a, index_b)), b |-> Some(Diff_new(index_b, index_a))]

SymDiff_next(c) ==
    LET ra == Diff_next(Unwrap(c.a))
        rb == Diff_next(Unwrap(c.b))
    IN IF IsSome(c.a) /\ IsSome(ra.item)
       THEN [item |-> ra.item, it |-> [c EXCEPT !.a = Some(ra.it)]]
       ELSE IF IsSome(c.b)
            THEN [item |-> rb.item, it |-> [a |-> None, b |-> Some(rb.it)]]
            ELSE [item |-> None, it |-> [a |-> None, b |-> None]]

SymDiff_next_back(c) ==
    LET ra == Diff_next_back(Unwrap(c.a))
        rb == Diff_next_back(Unwrap(c.b))
    IN IF IsSome(c.b) /\ IsSome(rb.item)
       THEN [item |-> rb.item, it |-> [c EXCEPT !.b = Some(rb.it)]]
       ELSE IF IsSome(c.a)
            THEN [item |-> ra.item, it |-> [a |-> Some(ra.it), b |-> None]]
            ELSE [item |-> None, it |-> [a |-> None, b |-> None]]

\* Union(Chain<Iter, Diff>)
Union_new(index_a, index_b) ==
    [a |-> Some(index_a), b |-> Some(Diff_new(index_b, index_a))]

Union_next(c) ==
    LET rb == Diff_next(Unwrap(c.b))
    IN IF IsSome(c.a) /\ Unwrap(c.a) # <<>>
       THEN [item |-> Some(Head(Unwrap(c.a))), it |-> [c EXCEPT !.a = Some(Tail(Unwrap(c.a)))]]
       ELSE IF IsSome(c.b)
            THEN [item |-> rb.item, it |-> [a |-> None, b |-> Some(rb.it)]]
            ELSE [item |-> None, it |-> [a |-> None, b |-> None]]

Union_next_back(c) ==
    LET rb == Diff_next_back(Unwrap(c.b))
        items == Unwrap(c.a)
    IN IF IsSome(c.b) /\ IsSome(rb.item)
       THEN [item |-> rb.item, it |-> [c EXCEPT !.b = Some(rb.it)]]
       ELSE IF IsSome(c.a)
            THEN IF items # <<>>
                 THEN [item |-> Some(items[Len(items)]),
                       it |-> [a |-> Some(Front(items)), b |-> None]]
                 ELSE [item |-> None, it |-> [a |-> c.a, b |-> None]]
            ELSE [item |-> None, it |-> [a |-> None, b |-> None]]

\* Iterator::collect::<Vec<_>>(): next() until it gives None.
RECURSIVE Diff_collect(_, _)
Diff_collect(it, acc) ==
    LET r == Diff_next(it)
    IN IF IsSome(r.item) THEN Diff_collect(r.it, Append(acc, Unwrap(r.item))) ELSE acc

RECURSIVE Inter_collect(_, _)
Inter_collect(it, acc) ==
    LET r == Inter_next(it)
    IN IF IsSome(r.item) THEN Inter_collect(r.it, Append(acc, Unwrap(r.item))) ELSE acc

RECURSIVE SymDiff_collect(_, _)
SymDiff_collect(it, acc) ==
    LET r == SymDiff_next(it)
    IN IF IsSome(r.item) THEN SymDiff_collect(r.it, Append(acc, Unwrap(r.item))) ELSE acc

RECURSIVE Union_collect(_, _)
Union_collect(it, acc) ==
    LET r == Union_next(it)
    IN IF IsSome(r.item) THEN Union_collect(r.it, Append(acc, Unwrap(r.item))) ELSE acc

\* Mutant of Index_intersection: walks the other Index.
Index_intersection_swapped(ix, other) == Inter_new(other, ix)

\* Mutant of Index_union: the second half is all of the other Index.
Index_union_plain_chain(ix, other) == [a |-> Some(ix), b |-> Some(Diff_new(other, <<>>))]

\* Mutant of Index_symmetric_difference: the second half is left out.
Index_symmetric_difference_one_sided(ix, other) ==
    [a |-> Some(Diff_new(ix, other)), b |-> Some(Diff_new(<<>>, ix))]

\* Mutant of Index_is_disjoint: looks at the difference.
Index_is_disjoint_by_difference(ix, other) == Diff_next(Diff_new(ix, other)).item = None

\* Mutant of Index_subset_impl: the lengths are not compared.
Index_subset_impl_no_len(ix, other, is_strict) ==
    Diff_next(Diff_new(ix, other)).item = None

Index_difference(ix, other) == Diff_new(ix, other)

Index_symmetric_difference(ix, other) == SymDiff_new(ix, other)

Index_intersection(ix, other) == Inter_new(ix, other)

Index_union(ix, other) == Union_new(ix, other)

Index_is_disjoint(ix, other) == Inter_next(Inter_new(ix, other)).item = None

Index_subset_impl(ix, other, is_strict) ==
    LET a_len == Index_len(ix)
        b_len == Index_len(other)
        len_ok == IF is_strict THEN a_len < b_len ELSE a_len <= b_len
    IN len_ok /\ Diff_next(Diff_new(ix, other)).item = None

Index_is_subset(ix, other) == Index_subset_impl(ix, other, FALSE)

Index_is_strict_subset(ix, other) == Index_subset_impl(ix, other, TRUE)

Index_is_superset(ix, other) == Index_is_subset(other, ix)

Index_is_strict_superset(ix, other) == Index_is_strict_subset(other, ix)

\* ----------------------------------------------------------- Series<L, V>

Vals == 1..MaxVal
OptVals == {None} \cup {Some(v) : v \in Vals}
\* The values a Series holds: Option<R> when opt, R otherwise.
ValsOf(opt) == IF opt THEN OptVals ELSE Vals

\* Vec::retain(f) with a closure that counts its calls: f is called once
\* per element, in order, and keep[p] is its answer to call number p.
Vec_retain(v, keep) ==
    LET kept == {i \in 1..Len(v) : keep[i - 1]}
        Nth(k) == CHOOSE i \in kept : Cardinality({j \in kept : j < i}) = k - 1
    IN [k \in 1..Cardinality(kept) |-> v[Nth(k)]]

\* Index::retain(f): keeps the labels f accepts, in their order.
Index_retain(ix, keep) ==
    LET kept == {i \in 1..Len(ix) : keep[i - 1]}
        Nth(k) == CHOOSE i \in kept : Cardinality({j \in kept : j < i}) = k - 1
    IN [k \in 1..Cardinality(kept) |-> ix[Nth(k)]]

Series_of(ix, values, opt) == [index |-> ix, values |-> values, opt |-> opt]

\* assert_len: whether assert_eq!(self.0.len(), self.1.len()) passes.
Series_assert_len(s) == Index_len(s.index) = Len(s.values)

\* What an operation hands back: the Series it leaves and whether it
\* panicked on assert_len.
Series_new_inner(ix, values, opt) ==
    LET new == Series_of(ix, values, opt)
    IN [series |-> new, panic |-> ~Series_assert_len(new)]

Series_new(opt) == Series_of(Index_new, <<>>, opt)

Ok == [tag |-> "Ok"]
DuplicateIndexLabel(label) == [tag |-> "Err", err |-> "DuplicateIndexLabel", label |-> label]
LengthMismatch(ix, values) ==
    [tag |-> "Err", err |-> "LengthMismatch", index |-> ix, values |-> values]
OverlappingIndex == [tag |-> "Err", err |-> "OverlappingIndex"]

\* from_iter_checked: the loop over the pairs <<label, value>>.
\* Mutant of from_iter_checked_loop: a repeated label is skipped, not reported.
RECURSIVE from_iter_checked_loop_skipping(_, _, _)
from_iter_checked_loop_skipping(ix, values, pairs) ==
    IF pairs = <<>> THEN [ret |-> Ok, index |-> ix, values |-> values]
    ELSE LET label == Head(pairs)[1]
             value == Head(pairs)[2]
         IN IF Index_contains(ix, label)
            THEN from_iter_checked_loop_skipping(ix, values, Tail(pairs))
            ELSE from_iter_checked_loop_skipping(Index_push(ix, label).set,
                                                 Append(values, value), Tail(pairs))

RECURSIVE from_iter_checked_loop(_, _, _)
from_iter_checked_loop(ix, values, pairs) ==
    IF pairs = <<>> THEN [ret |-> Ok, index |-> ix, values |-> values]
    ELSE LET label == Head(pairs)[1]
             value == Head(pairs)[2]
         IN IF Index_contains(ix, label)
            THEN [ret |-> DuplicateIndexLabel(label), index |-> ix, values |-> values]
            ELSE from_iter_checked_loop(Index_push(ix, label).set,
                                        Append(values, value), Tail(pairs))

Series_from_iter_checked(pairs, opt) ==
    LET r == from_iter_checked_loop(Index_with_capacity(Len(pairs)), <<>>, pairs)
    IN IF r.ret.tag = "Ok"
       THEN [ret |-> Ok] @@ Series_new_inner(r.index, r.values, opt)
       ELSE [ret |-> r.ret]

\* Mutant of Series_from_values: the lengths are not compared.
Series_from_values_unchecked(ix, values, opt) ==
    [ret |-> Ok] @@ Series_new_inner(ix, values, opt)

Series_from_values(ix, values, opt) ==
    IF Index_len(ix) # Len(values)
    THEN [ret |-> LengthMismatch(ix, values)]
    ELSE [ret |-> Ok] @@ Series_new_inner(ix, values, opt)

\* Mutant of IndexMap_from_iter: a repeated key keeps the value it had.
RECURSIVE IndexMap_from_iter_keep_first(_, _)
IndexMap_from_iter_keep_first(acc, pairs) ==
    IF pairs = <<>> THEN acc
    ELSE LET key == Head(pairs)[1]
             hit == {i \in 1..Len(acc) : acc[i][1] = key}
         IN IndexMap_from_iter_keep_first(
                IF hit = {} THEN Append(acc, Head(pairs)) ELSE acc, Tail(pairs))

\* IndexMap::from_iter: a repeated key keeps its place and takes the new value.
RECURSIVE IndexMap_from_iter(_, _)
IndexMap_from_iter(acc, pairs) ==
    IF pairs = <<>> THEN acc
    ELSE LET key == Head(pairs)[1]
             hit == {i \in 1..Len(acc) : acc[i][1] = key}
         IN IndexMap_from_iter(
                IF hit = {} THEN Append(acc, Head(pairs))
                ELSE [acc EXCEPT ![CHOOSE i \in hit : TRUE] = Head(pairs)],
                Tail(pairs))

\* <Series as FromIterator>::from_iter
Series_from_iter(pairs, opt) ==
    LET index_map == IndexMap_from_iter(<<>>, pairs)
        ix == Index_from_iter([i \in 1..Len(index_map) |-> index_map[i][1]])
        values == [i \in 1..Len(index_map) |-> index_map[i][2]]
    IN Series_new_inner(ix, values, opt)

Series_clear(s) == Series_of(Index_clear(s.index), <<>>, s.opt)

Series_iloc(s, pos) == IF pos < Len(s.values) THEN Some(s.values[pos + 1]) ELSE None

\* Mutant of Series_loc: the label itself is taken for the position.
Series_loc_unresolved(s, label) == Series_iloc(s, label)

Series_loc(s, label) ==
    LET pos == Index_index_of(s.index, label)
    IN IF IsSome(pos) THEN Series_iloc(s, Unwrap(pos)) ELSE None

\* *s.iloc_mut(pos)? = value: the write happens when iloc_mut gives Some.
Series_iloc_mut(s, pos, value) ==
    IF pos < Len(s.values)
    THEN [series |-> [s EXCEPT !.values[pos + 1] = value], found |-> TRUE]
    ELSE [series |-> s, found |-> FALSE]

\* *s.loc_mut(&label)? = value
Series_loc_mut(s, label, value) ==
    LET pos == Index_index_of(s.index, label)
    IN IF pos = None THEN [series |-> s, found |-> FALSE]
       ELSE Series_iloc_mut(s, Unwrap(pos), value)

\* The predicates a caller passes to retain, retain_labels and
\* retain_values: pred(l, v) is l \in ls /\ v \in vs.
PredHolds(pred, l, v) == l \in pred.ls /\ v \in pred.vs

\* Series::iter(): the zip of the labels and the values.
Series_iter(s) ==
    [i \in 1..(IF Len(s.index) < Len(s.values) THEN Len(s.index) ELSE Len(s.values))
        |-> <<s.index[i], s.values[i]>>]

\* retain with one position counter shared by both halves: the second
\* closure goes on counting where the first stopped.
Series_retain_shared_counter(s, pred) ==
    LET pairs == Series_iter(s)
        pos_to_drop == {p \in 0..(Len(pairs) - 1) :
                            PredHolds(pred, pairs[p + 1][1], pairs[p + 1][2])}
        Keep == [p \in 0..Len(s.index) |-> p \notin pos_to_drop]
        KeepOn == [p \in 0..Len(s.values) |-> (p + Len(s.index)) \notin pos_to_drop]
        after == IF pos_to_drop # {}
                 THEN Series_of(Index_retain(s.index, Keep),
                                Vec_retain(s.values, KeepOn), s.opt)
                 ELSE s
    IN [series |-> after, panic |-> ~Series_assert_len(after)]

Series_retain(s, pred) ==
    LET pairs == Series_iter(s)
        pos_to_drop == {p \in 0..(Len(pairs) - 1) :
                            PredHolds(pred, pairs[p + 1][1], pairs[p + 1][2])}
        Keep == [p \in 0..(Len(s.index) + Len(s.values)) |-> p \notin pos_to_drop]
        after == IF pos_to_drop # {}
                 THEN Series_of(Index_retain(s.index, Keep),
                                Vec_retain(s.values, Keep), s.opt)
                 ELSE s
    IN [series |-> after, panic |-> ~Series_assert_len(after)]

Series_retain_labels(s, ls) == Series_retain(s, [ls |-> ls, vs |-> ValsOf(s.opt)])

Series_retain_values(s, vs) == Series_retain(s, [ls |-> Labels, vs |-> vs])

\* The functions a caller passes to map; each keeps the type of the values.
MapFns == {"ident", "first", "rotate"}
ApplyMap(f, opt, v) ==
    CASE f = "ident" -> v
      [] f = "first" -> IF opt THEN Some(1) ELSE 1
      [] f = "rotate" ->
            IF opt
            THEN IF v = None THEN Some(1)
                 ELSE IF Unwrap(v) = MaxVal THEN None ELSE Some(Unwrap(v) + 1)
            ELSE (v % MaxVal) + 1

Series_map(s, f) ==
    Series_new_inner(s.index,
                     [i \in 1..Len(s.values) |-> ApplyMap(f, s.opt, s.values[i])],
                     s.opt)

\* fill_handler with a fill function that has answered `calls` times:
\* values.into_iter().map(fill_func).collect(), front to back.  FillWith
\* is what the function puts for a None on its call number k (from 0).
\* Mutant of fill_handler_loop: the function is called for every value,
\* its result being thrown away for a Some (unwrap_or in place of
\* unwrap_or_else).
RECURSIVE fill_handler_loop_eager(_, _, _, _)
fill_handler_loop_eager(values, fill, calls, acc) ==
    IF values = <<>> THEN acc
    ELSE fill_handler_loop_eager(Tail(values), fill, calls + 1,
                                 Append(acc, IF Head(values) = None THEN fill[calls]
                                             ELSE Unwrap(Head(values))))

RECURSIVE fill_handler_loop(_, _, _, _)
fill_handler_loop(values, fill, calls, acc) ==
    IF values = <<>> THEN acc
    ELSE IF Head(values) = None
         THEN fill_handler_loop(Tail(values), fill, calls + 1,
                                Append(acc, fill[calls]))
         ELSE fill_handler_loop(Tail(values), fill, calls,
                                Append(acc, Unwrap(Head(values))))

Series_fill_handler(s, fill) ==
    Series_new_inner(s.index, fill_handler_loop(s.values, fill, 0, <<>>), FALSE)

\* fill_none(value): every call clones value.
Series_fill_none(s, value) ==
    Series_fill_handler(s, [k \in 0..Len(s.values) |-> value])

\* fill_none_with(func), func a counter that starts at `first` and wraps
\* around after MaxVal: its call number k gives first + k.
CounterFn(first) == [k \in 0..(MaxLen + MaxLabel) |-> ((first - 1 + k) % MaxVal) + 1]

Series_fill_none_with(s, first) == Series_fill_handler(s, CounterFn(first))

\* Mutant of Series_drop_none: the labels of the None pairs stay in the index.
Series_drop_none_keep_index(s) ==
    LET some_values == SelectSeq(s.values, LAMBDA v : v # None)
    IN Series_new_inner(s.index, [i \in 1..Len(some_values) |-> Unwrap(some_values[i])],
                        FALSE)

Series_drop_none(s) ==
    LET pos_to_drop == {p \in 0..(Len(s.values) - 1) : s.values[p + 1] = None}
        Keep == [p \in 0..(Len(s.index) + Len(s.values)) |-> p \notin pos_to_drop]
        some_values == Vec_retain(s.values, Keep)
        raw_values == [i \in 1..Len(some_values) |-> Unwrap(some_values[i])]
        ix == IF pos_to_drop # {} THEN Index_retain(s.index, Keep) ELSE s.index
    IN Series_new_inner(ix, raw_values, FALSE)

Series_concat_checked(s, other) == [ret |-> Ok, series |-> s]

\* ------------------------------------ SeriesDense<L, V> (series/dense)

\* SeriesDense::invariant: whether assert_eq!(self.0.len(), self.1.len()) passes.
SeriesDense_invariant(s) == Index_len(s.index) = Len(s.values)

SeriesDense_new_inner(ix, values, opt) ==
    LET new == Series_of(ix, values, opt)
    IN [series |-> new, panic |-> ~SeriesDense_invariant(new)]

\* SeriesDense::from_pairs: the loop is that of Series::from_iter_checked.
SeriesDense_from_pairs(pairs, opt) ==
    LET r == from_iter_checked_loop(Index_with_capacity(Len(pairs)), <<>>, pairs)
    IN IF r.ret.tag = "Ok"
       THEN [ret |-> Ok] @@ SeriesDense_new_inner(r.index, r.values, opt)
       ELSE [ret |-> r.ret]

\* SeriesDense::retain: pos_to_drop holds the positions pred accepts, and
\* both halves keep the positions it holds, when it holds any.
SeriesDense_retain(s, pred) ==
    LET pairs == Series_iter(s)
        pos_to_drop == {p \in 0..(Len(pairs) - 1) :
                            PredHolds(pred, pairs[p + 1][1], pairs[p + 1][2])}
        Keep == [p \in 0..(Len(s.index) + Len(s.values)) |-> p \in pos_to_drop]
        after == IF pos_to_drop # {}
                 THEN Series_of(Index_retain(s.index, Keep),
                                Vec_retain(s.values, Keep), s.opt)
                 ELSE s
    IN [series |-> after, panic |-> ~SeriesDense_invariant(after)]

SeriesDense_retain_labels(s, ls) == SeriesDense_retain(s, [ls |-> ls, vs |-> ValsOf(s.opt)])

SeriesDense_retain_values(s, vs) == SeriesDense_retain(s, [ls |-> Labels, vs |-> vs])

\* ------------------------------------------------------------------ state

VARIABLES
    index,   \* the Index under test: its labels in position order
    icall,   \* the Index operation that has just returned: its name, its
             \* arguments, its result and the Index it was applied to;
             \* "none" before the Index exists, "idle" between calls
    miter,   \* the lazy lookup iterator borrowing the Index, if any
    series,  \* the Series under test: its Index, its values, and whether
             \* the values are Option<R> (Series<L, Option<R>>) or R
    scall,   \* the Series operation that has just returned, as icall
    liter    \* the lazy range or set-algebra iterator borrowing the Index,
             \* if any, with what its caller has seen of it

vars == <<index, icall, miter, series, scall, liter>>

NoCall == [op |-> "none"]
Idle == [op |-> "idle"]
NoIter == [kind |-> "none"]

\* No Index has been constructed yet.
Unborn == icall.op = "none"
\* The Index exists, no call is being reported and nothing borrows it.
Ready == icall.op = "idle" /\ miter = NoIter

Init ==
    /\ index = <<>>
    /\ icall = NoCall
    /\ miter = NoIter
    /\ series = Series_new(TRUE)
    /\ scall = NoCall
    /\ liter = NoIter

\* Index::new()
New ==
    /\ Unborn
    /\ index' = Index_new
    /\ icall' = [op |-> "new"]
    /\ UNCHANGED <<miter, series, scall, liter>>

\* Index::from_iter(items) / Index::from(vec)
FromIter(items) ==
    /\ Unborn
    /\ index' = Index_from_iter(items)
    /\ icall' = [op |-> "from_iter", items |-> items]
    /\ UNCHANGED <<miter, series, scall, liter>>

\* index.push(key)
Push(key) ==
    /\ Ready
    /\ LET r == Index_push(index, key)
       IN /\ index' = r.set
          /\ icall' = [op |-> "push", key |-> key, pre |-> index, ret |-> r.inserted]
    /\ UNCHANGED <<miter, series, scall, liter>>

\* index.sort()
Sort ==
    /\ Ready
    /\ index' = Index_sort(index)
    /\ icall' = [op |-> "sort", pre |-> index]
    /\ UNCHANGED <<miter, series, scall, liter>>

\* index.sort_by(compare)
SortBy(c) ==
    /\ Ready
    /\ index' = Index_sort_by(index, c)
    /\ icall' = [op |-> "sort_by", compare |-> c, pre |-> index]
    /\ UNCHANGED <<miter, series, scall, liter>>

\* index.sort_by_key(get_key)
SortByKey(k) ==
    /\ Ready
    /\ index' = Index_sort_by_key(index, k)
    /\ icall' = [op |-> "sort_by_key", get_key |-> k, pre |-> index]
    /\ UNCHANGED <<miter, series, scall, liter>>

\* index.reverse()
Reverse ==
    /\ Ready
    /\ index' = Index_reverse(index)
    /\ icall' = [op |-> "reverse", pre |-> index]
    /\ UNCHANGED <<miter, series, scall, liter>>

\* index.clear()
Clear ==
    /\ Ready
    /\ index' = Index_clear(index)
    /\ icall' = [op |-> "clear", pre |-> index]
    /\ UNCHANGED <<miter, series, scall, liter>>

\* index.index_of(&label)
IndexOf(label) ==
    /\ Ready
    /\ icall' = [op |-> "index_of", label |-> label, ret |-> Index_index_of(index, label)]
    /\ UNCHANGED <<index, miter, series, scall, liter>>

\* index.iloc(pos)
Iloc(pos) ==
    /\ Ready
    /\ icall' = [op |-> "iloc", pos |-> pos, ret |-> Index_iloc(index, pos)]
    /\ UNCHANGED <<index, miter, series, scall, liter>>

\* index.loc(&label)
Loc(label) ==
    /\ Ready
    /\ icall' = [op |-> "loc", label |-> label, ret |-> Index_loc(index, label)]
    /\ UNCHANGED <<index, miter, series, scall, liter>>

\* index.iloc_multi(pos_iter)
IlocMulti(keys) ==
    /\ Ready
    /\ icall' = [op |-> "iloc_multi", keys |-> keys, ret |-> Index_iloc_multi(index, keys)]
    /\ UNCHANGED <<index, miter, series, scall, liter>>

\* index.loc_multi(labels)
LocMultiEager(keys) ==
    /\ Ready
    /\ icall' = [op |-> "loc_multi", keys |-> keys, ret |-> Index_loc_multi(index, keys)]
    /\ UNCHANGED <<index, miter, series, scall, liter>>

\* index.iloc_range((sb, eb))
IlocRange(sb, eb) ==
    /\ Ready
    /\ icall' = [op |-> "iloc_range", sb |-> sb, eb |-> eb,
                 ret |-> Index_iloc_range(index, sb, eb)]
    /\ UNCHANGED <<index, miter, series, scall, liter>>

\* index.loc_range((sb, eb))
LocRange(sb, eb) ==
    /\ Ready
    /\ icall' = [op |-> "loc_range", sb |-> sb, eb |-> eb,
                 ret |-> Index_loc_range(index, sb, eb)]
    /\ UNCHANGED <<index, miter, series, scall, liter>>

\* index.bloc(bools)
Bloc(bools) ==
    /\ Ready
    /\ icall' = [op |-> "bloc", bools |-> bools, ret |-> Index_bloc(index, bools)]
    /\ UNCHANGED <<index, miter, series, scall, liter>>

\* index.difference(&other).collect()
Difference(other) ==
    /\ Ready
    /\ icall' = [op |-> "difference", other |-> other,
                 ret |-> Diff_collect(Index_difference(index, other), <<>>)]
    /\ UNCHANGED <<index, miter, series, scall, liter>>

\* index.symmetric_difference(&other).collect()
SymmetricDifference(other) ==
    /\ Ready
    /\ icall' = [op |-> "symmetric_difference", other |-> other,
                 ret |-> SymDiff_collect(Index_symmetric_difference(index, other), <<>>)]
    /\ UNCHANGED <<index, miter, series, scall, liter>>

\* index.intersection(&other).collect()
Intersection(other) ==
    /\ Ready
    /\ icall' = [op |-> "intersection", other |-> other,
                 ret |-> Inter_collect(Index_intersection(index, other), <<>>)]
    /\ UNCHANGED <<index, miter, series, scall, liter>>

\* index.union(&other).collect()
Union(other) ==
    /\ Ready
    /\ icall' = [op |-> "union", other |-> other,
                 ret |-> Union_collect(Index_union(index, other), <<>>)]
    /\ UNCHANGED <<index, miter, series, scall, liter>>

\* index.is_disjoint(&other)
IsDisjoint(other) ==
    /\ Ready
    /\ icall' = [op |-> "is_disjoint", other |-> other,
                 ret |-> Index_is_disjoint(index, other)]
    /\ UNCHANGED <<index, miter, series, scall, liter>>

\* index.is_subset(&other), is_strict_subset, is_superset, is_strict_superset
IsSubset(other) ==
    /\ Ready
    /\ icall' = [op |-> "is_subset", other |-> other,
                 ret |-> Index_is_subset(index, other)]
    /\ UNCHANGED <<index, miter, series, scall, liter>>

IsStrictSubset(other) ==
    /\ Ready
    /\ icall' = [op |-> "is_strict_subset", other |-> other,
                 ret |-> Index_is_strict_subset(index, other)]
    /\ UNCHANGED <<index, miter, series, scall, liter>>

IsSuperset(other) ==
    /\ Ready
    /\ icall' = [op |-> "is_superset", other |-> other,
                 ret |-> Index_is_superset(index, other)]
    /\ UNCHANGED <<index, miter, series, scall, liter>>

IsStrictSuperset(other) ==
    /\ Ready
    /\ icall' = [op |-> "is_strict_superset", other |-> other,
                 ret |-> Index_is_strict_superset(index, other)]
    /\ UNCHANGED <<index, miter, series, scall, liter>>

\* index.is_sorted()
IsSorted ==
    /\ Ready
    /\ icall' = [op |-> "is_sorted", ret |-> Index_is_sorted(index)]
    /\ UNCHANGED <<index, miter, series, scall, liter>>

\* index.arg_sort()
ArgSort ==
    /\ Ready
    /\ icall' = [op |-> "arg_sort", by |-> ByCompare("cmp"), pre |-> index,
                 ret |-> Index_arg_sort(index)]
    /\ UNCHANGED <<index, miter, series, scall, liter>>

\* index.arg_sort_by(compare)
ArgSortBy(c) ==
    /\ Ready
    /\ icall' = [op |-> "arg_sort_by", by |-> ByCompare(c), pre |-> index,
                 ret |-> Index_arg_sort_by(index, c)]
    /\ UNCHANGED <<index, miter, series, scall, liter>>

\* index.arg_sort_by_key(get_key)
ArgSortByKey(k) ==
    /\ Ready
    /\ icall' = [op |-> "arg_sort_by_key", by |-> ByKey(k), pre |-> index,
                 ret |-> Index_arg_sort_by_key(index, k)]
    /\ UNCHANGED <<index, miter, series, scall, liter>>

\* The caller takes the result of the call that has just returned.
Return ==
    /\ icall.op \notin {"none", "idle"}
    /\ icall' = Idle
    /\ UNCHANGED <<index, miter, series, scall, liter>>

\* ILocMulti::new(keys.iter(), &index) / LocMulti::new(keys.iter(), &index)
\* input, front, back and ended record what the caller gave and saw: the
\* items next() returned, the items next_back() returned, and whether a
\* call has reported the end of the iteration.
MultiNew(kind, keys) ==
    /\ Ready
    /\ miter' = [kind |-> kind, keys |-> keys, input |-> keys,
                 front |-> <<>>, back |-> <<>>, ended |-> FALSE]
    /\ UNCHANGED <<index, icall, series, scall, liter>>

MultiStep(r, side) ==
    /\ miter' = [miter EXCEPT
                    !.keys = r.keys,
                    !.front = IF side = "front" /\ IsSome(r.item)
                              THEN Append(@, Unwrap(r.item)) ELSE @,
                    !.back = IF side = "back" /\ IsSome(r.item)
                             THEN Append(@, Unwrap(r.item)) ELSE @,
                    !.ended = @ \/ r.item = None]
    /\ UNCHANGED <<index, icall, series, scall, liter>>

\* <ILocMulti as Iterator>::next
ILocMultiNext ==
    /\ miter.kind = "ILocMulti"
    /\ MultiStep(ILocMulti_next(index, miter.keys), "front")

\* <ILocMulti as DoubleEndedIterator>::next_back
ILocMultiNextBack ==
    /\ miter.kind = "ILocMulti"
    /\ MultiStep(ILocMulti_next_back(index, miter.keys), "back")

\* <LocMulti as Iterator>::next
LocMultiNext ==
    /\ miter.kind = "LocMulti"
    /\ MultiStep(LocMulti_next(index, miter.keys), "front")

\* <LocMulti as DoubleEndedIterator>::next_back
LocMultiNextBack ==
    /\ miter.kind = "LocMulti"
    /\ MultiStep(LocMulti_next_back(index, miter.keys), "back")

\* The iterator is dropped and its borrow of the Index ends.
MultiDrop ==
    /\ miter # NoIter
    /\ miter' = NoIter
    /\ UNCHANGED <<index, icall, series, scall, liter>>

\* The other Index of a call that takes two.
OtherIndexes == {Index_from_iter(items) : items \in SeqUpTo(Labels, MaxLen)}

\* Each call's guard (Unborn, Ready) is repeated ahead of the choice of its
\* arguments.
Next ==
    \/ New
    \/ Unborn /\ \E items \in SeqUpTo(Labels, MaxLen) : FromIter(items)
    \/ Ready /\ \E key \in Labels : Push(key)
    \/ Sort
    \/ Ready /\ \E c \in Comparators : SortBy(c)
    \/ Ready /\ \E k \in KeyFns : SortByKey(k)
    \/ Reverse
    \/ Clear
    \/ Ready /\ \E label \in QLabels : IndexOf(label)
    \/ Ready /\ \E pos \in RPos : Iloc(pos)
    \/ Ready /\ \E label \in QLabels : Loc(label)
    \/ Ready /\ \E keys \in SeqUpTo(QPos, MaxLen) : IlocMulti(keys)
    \/ Ready /\ \E keys \in SeqUpTo(QLabels, MaxLen) : LocMultiEager(keys)
    \/ Ready /\ \E sb \in BoundsOver(RPos), eb \in BoundsOver(RPos) : IlocRange(sb, eb)
    \/ Ready /\ \E sb \in BoundsOver(QLabels), eb \in BoundsOver(QLabels) : LocRange(sb, eb)
    \/ Ready /\ \E bools \in SeqUpTo(BOOLEAN, MaxLen) : Bloc(bools)
    \/ Ready /\ \E other \in OtherIndexes : Difference(other)
    \/ Ready /\ \E other \in OtherIndexes : SymmetricDifference(other)
    \/ Ready /\ \E other \in OtherIndexes : Intersection(other)
    \/ Ready /\ \E other \in OtherIndexes : Union(other)
    \/ Ready /\ \E other \in OtherIndexes : IsDisjoint(other)
    \/ Ready /\ \E other \in OtherIndexes : IsSubset(other)
    \/ Ready /\ \E other \in OtherIndexes : IsStrictSubset(other)
    \/ Ready /\ \E other \in OtherIndexes : IsSuperset(other)
    \/ Ready /\ \E other \in OtherIndexes : IsStrictSuperset(other)
    \/ IsSorted
    \/ ArgSort
    \/ Ready /\ \E c \in Comparators : ArgSortBy(c)
    \/ Ready /\ \E k \in KeyFns : ArgSortByKey(k)
    \/ Return
    \/ Ready /\ \E keys \in SeqUpTo(QPos, MaxLen) : MultiNew("ILocMulti", keys)
    \/ Ready /\ \E keys \in SeqUpTo(QLabels, MaxLen) : MultiNew("LocMulti", keys)
    \/ ILocMultiNext
    \/ ILocMultiNextBack
    \/ LocMultiNext
    \/ LocMultiNextBack
    \/ MultiDrop

Spec == Init /\ [][Next]_vars

\* ------------------------------------- range and set-algebra iterators

\* An iterator is made over the Index and handed to the caller: `it` is
\* the iterator (None when its constructor gave None), `input` what it was
\* made from, `front` and `back` the items next() and next_back() have
\* returned so far, `ended` whether a call has returned None.
LazyNew(kind, it, input) ==
    /\ Ready
    /\ liter = NoIter
    /\ liter' = [kind |-> kind, it |-> it, input |-> input,
                 front |-> <<>>, back |-> <<>>, ended |-> FALSE]
    /\ UNCHANGED <<index, icall, miter, series, scall>>

\* One call of next() (side "front") or next_back() (side "back").
LazyStep(kind, r, side) ==
    /\ liter.kind = kind
    /\ liter.it # None
    /\ liter' = [liter EXCEPT
                    !.it = Some(r.it),
                    !.front = IF side = "front" /\ IsSome(r.item)
                              THEN Append(@, Unwrap(r.item)) ELSE @,
                    !.back = IF side = "back" /\ IsSome(r.item)
                             THEN Append(@, Unwrap(r.item)) ELSE @,
                    !.ended = @ \/ r.item = None]
    /\ UNCHANGED <<index, icall, miter, series, scall>>

\* ILocRange::new((sb, eb), &index)
ILocRangeNew(sb, eb) ==
    LazyNew("ILocRange", ILocRange_new(sb, eb, index), [sb |-> sb, eb |-> eb])

ILocRangeNext == LazyStep("ILocRange", ILocRange_next(Unwrap(liter.it)), "front")

ILocRangeNextBack == LazyStep("ILocRange", ILocRange_next_back(Unwrap(liter.it)), "back")

\* let it = index.difference(&other)
DiffNew(other) == LazyNew("Diff", Some(Index_difference(index, other)), other)

DiffNext == LazyStep("Diff", Diff_next(Unwrap(liter.it)), "front")

DiffNextBack == LazyStep("Diff", Diff_next_back(Unwrap(liter.it)), "back")

\* let it = index.symmetric_difference(&other)
SymDiffNew(other) ==
    LazyNew("SymDiff", Some(Index_symmetric_difference(index, other)), other)

SymDiffNext == LazyStep("SymDiff", SymDiff_next(Unwrap(liter.it)), "front")

SymDiffNextBack == LazyStep("SymDiff", SymDiff_next_back(Unwrap(liter.it)), "back")

\* let it = index.intersection(&other)
InterNew(other) == LazyNew("Inter", Some(Index_intersection(index, other)), other)

InterNext == LazyStep("Inter", Inter_next(Unwrap(liter.it)), "front")

InterNextBack == LazyStep("Inter", Inter_next_back(Unwrap(liter.it)), "back")

\* let it = index.union(&other)
UnionNew(other) == LazyNew("Union", Some(Index_union(index, other)), other)

UnionNext == LazyStep("Union", Union_next(Unwrap(liter.it)), "front")

UnionNextBack == LazyStep("Union", Union_next_back(Unwrap(liter.it)), "back")

\* The iterator is dropped and its borrow of the Index ends.
LazyDrop ==
    /\ liter # NoIter
    /\ liter' = NoIter
    /\ UNCHANGED <<index, icall, miter, series, scall>>

\* An Index is built and iterators are made over it, one at a time.
IterNext ==
    \/ Unborn /\ \E items \in SeqUpTo(Labels, MaxLen) : FromIter(items)
    \/ Return
    \/ Ready /\ liter = NoIter /\ \E sb \in BoundsOver(RPos), eb \in BoundsOver(RPos) :
          ILocRangeNew(sb, eb)
    \/ ILocRangeNext
    \/ ILocRangeNextBack
    \/ Ready /\ liter = NoIter /\ \E other \in OtherIndexes : DiffNew(other)
    \/ DiffNext
    \/ DiffNextBack
    \/ Ready /\ liter = NoIter /\ \E other \in OtherIndexes : SymDiffNew(other)
    \/ SymDiffNext
    \/ SymDiffNextBack
    \/ Ready /\ liter = NoIter /\ \E other \in OtherIndexes : InterNew(other)
    \/ InterNext
    \/ InterNextBack
    \/ Ready /\ liter = NoIter /\ \E other \in OtherIndexes : UnionNew(other)
    \/ UnionNext
    \/ UnionNextBack
    \/ LazyDrop

SpecIter == Init /\ [][IterNext]_vars

\* ------------------------------------------------------ Series: actions

\* No Series has been constructed yet.
SUnborn == scall.op = "none"
\* The Series exists and no call is being reported.
SReady == scall.op = "idle"

\* Every Index a caller can hold.
AllIndexes == {Index_from_iter(items) : items \in SeqUpTo(Labels, MaxLabel)}
\* The pairs a caller hands to a constructor.
PairsOf(opt) == SeqUpTo(Labels \X ValsOf(opt), MaxLen)

\* A constructor returns: the Series is the one built, or none on an Err.
Constructed(call, r) ==
    /\ SUnborn
    /\ scall' = call @@ [ret |-> r.ret, panic |-> IF r.ret.tag = "Ok" THEN r.panic ELSE FALSE]
    /\ series' = IF r.ret.tag = "Ok" THEN r.series ELSE series
    /\ UNCHANGED <<index, icall, miter, liter>>

\* A method returns: the Series is the one it leaves.
Returned(call, r) ==
    /\ SReady
    /\ scall' = call @@ [pre |-> series, panic |-> r.panic]
    /\ series' = r.series
    /\ UNCHANGED <<index, icall, miter, liter>>

\* Series::new()
SeriesNew(opt) ==
    Constructed([op |-> "new"], [ret |-> Ok, series |-> Series_new(opt), panic |-> FALSE])

\* Series::from_iter_checked(pairs)
SeriesFromIterChecked(opt, pairs) ==
    Constructed([op |-> "from_iter_checked", pairs |-> pairs],
                Series_from_iter_checked(pairs, opt))

\* Series::from_values(index, values)
SeriesFromValues(opt, ix, values) ==
    Constructed([op |-> "from_values", index |-> ix, values |-> values],
                Series_from_values(ix, values, opt))

\* Series::from_iter(pairs)
SeriesFromIter(opt, pairs) ==
    Constructed([op |-> "from_iter", pairs |-> pairs],
                [ret |-> Ok] @@ Series_from_iter(pairs, opt))

\* series.clear()
SeriesClear ==
    Returned([op |-> "clear"], [series |-> Series_clear(series), panic |-> FALSE])

\* series.retain(pred), pred(l, v) being l <= t && v != w
SeriesRetain(t, w) ==
    LET pred == [ls |-> 1..t, vs |-> ValsOf(series.opt) \ {w}]
    IN Returned([op |-> "retain", pred |-> pred], Series_retain(series, pred))

\* series.retain_labels(pred), pred(l) being l \in ls
SeriesRetainLabels(ls) ==
    Returned([op |-> "retain_labels", pred |-> [ls |-> ls, vs |-> ValsOf(series.opt)]],
             Series_retain_labels(series, ls))

\* series.retain_values(pred), pred(v) being v \in vs
SeriesRetainValues(vs) ==
    Returned([op |-> "retain_values", pred |-> [ls |-> Labels, vs |-> vs]],
             Series_retain_values(series, vs))

\* series.map(f)
SeriesMap(f) ==
    Returned([op |-> "map", f |-> f], Series_map(series, f))

\* series.fill_none(value)
SeriesFillNone(value) ==
    /\ series.opt
    /\ Returned([op |-> "fill_none", value |-> value], Series_fill_none(series, value))

\* series.fill_none_with(func), func a counter starting at first
SeriesFillNoneWith(first) ==
    /\ series.opt
    /\ Returned([op |-> "fill_none_with", first |-> first],
                Series_fill_none_with(series, first))

\* series.drop_none()
SeriesDropNone ==
    /\ series.opt
    /\ Returned([op |-> "drop_none"], Series_drop_none(series))

\* series.values_mut()[pos] = value, pos within the slice
SeriesValuesMut(pos, value) ==
    /\ pos < Len(series.values)
    /\ Returned([op |-> "values_mut", pos |-> pos, value |-> value],
                [series |-> [series EXCEPT !.values[pos + 1] = value], panic |-> FALSE])

\* if let Some(v) = series.iloc_mut(pos) { *v = value }
SeriesIlocMut(pos, value) ==
    LET r == Series_iloc_mut(series, pos, value)
    IN Returned([op |-> "iloc_mut", pos |-> pos, value |-> value, found |-> r.found],
                [series |-> r.series, panic |-> FALSE])

\* if let Some(v) = series.loc_mut(&label) { *v = value }
SeriesLocMut(label, value) ==
    LET r == Series_loc_mut(series, label, value)
    IN Returned([op |-> "loc_mut", label |-> label, value |-> value, found |-> r.found],
                [series |-> r.series, panic |-> FALSE])

\* series.iloc(pos)
SeriesIloc(pos) ==
    Returned([op |-> "iloc", pos |-> pos, ret |-> Series_iloc(series, pos)],
             [series |-> series, panic |-> FALSE])

\* series.loc(&label)
SeriesLoc(label) ==
    Returned([op |-> "loc", label |-> label, ret |-> Series_loc(series, label)],
             [series |-> series, panic |-> FALSE])

\* series.concat_checked(other), other holding the value `value` throughout
SeriesConcatChecked(ix, value) ==
    LET other == Series_of(ix, [i \in 1..Len(ix) |-> value], series.opt)
        r == Series_concat_checked(series, other)
    IN Returned([op |-> "concat_checked", other |-> other, ret |-> r.ret],
                [series |-> r.series, panic |-> FALSE])

\* The caller takes the result of the call that has just returned; after a
\* constructor's Err there is still no Series.
SeriesReturn ==
    /\ scall.op \notin {"none", "idle"}
    /\ scall' = IF "pre" \notin DOMAIN scall /\ scall.ret.tag = "Err" THEN NoCall ELSE Idle
    /\ UNCHANGED <<index, icall, miter, series, liter>>

SeriesNext ==
    \/ SUnborn /\ \E opt \in BOOLEAN : SeriesNew(opt)
    \/ SUnborn /\ \E opt \in BOOLEAN : \E pairs \in PairsOf(opt) :
          SeriesFromIterChecked(opt, pairs)
    \/ SUnborn /\ \E opt \in BOOLEAN : \E ix \in AllIndexes :
          \E values \in SeqUpTo(ValsOf(opt), MaxLen) : SeriesFromValues(opt, ix, values)
    \/ SUnborn /\ \E opt \in BOOLEAN : \E pairs \in PairsOf(opt) :
          SeriesFromIter(opt, pairs)
    \/ SeriesClear
    \/ SReady /\ \E t \in 0..MaxLabel : \E w \in ValsOf(series.opt) : SeriesRetain(t, w)
    \/ SReady /\ \E ls \in SUBSET Labels : SeriesRetainLabels(ls)
    \/ SReady /\ \E vs \in SUBSET ValsOf(series.opt) : SeriesRetainValues(vs)
    \/ SReady /\ \E f \in MapFns : SeriesMap(f)
    \/ SReady /\ \E value \in Vals : SeriesFillNone(value)
    \/ SReady /\ \E first \in Vals : SeriesFillNoneWith(first)
    \/ SeriesDropNone
    \/ SReady /\ \E pos \in QPos : \E value \in ValsOf(series.opt) :
          SeriesValuesMut(pos, value)
    \/ SReady /\ \E pos \in QPos : \E value \in ValsOf(series.opt) :
          SeriesIlocMut(pos, value)
    \/ SReady /\ \E label \in QLabels : \E value \in ValsOf(series.opt) :
          SeriesLocMut(label, value)
    \/ SReady /\ \E pos \in QPos : SeriesIloc(pos)
    \/ SReady /\ \E label \in QLabels : SeriesLoc(label)
    \/ SReady /\ \E ix \in AllIndexes : \E value \in ValsOf(series.opt) :
          SeriesConcatChecked(ix, value)
    \/ SeriesReturn

SpecSeries == Init /\ [][SeriesNext]_vars

\* ------------------------------------------------- SeriesDense: actions
\* Here `series` is the SeriesDense under test and `scall` its last call.

\* SeriesDense::from_pairs(pairs)
DenseFromPairs(opt, pairs) ==
    Constructed([op |-> "dense_from_pairs", pairs |-> pairs],
                SeriesDense_from_pairs(pairs, opt))

\* dense.retain(pred), pred(l, v) being l <= t && v != w
DenseRetain(t, w) ==
    LET pred == [ls |-> 1..t, vs |-> ValsOf(series.opt) \ {w}]
    IN Returned([op |-> "dense_retain", pred |-> pred], SeriesDense_retain(series, pred))

\* dense.retain_labels(pred), pred(l) being l \in ls
DenseRetainLabels(ls) ==
    Returned([op |-> "dense_retain_labels", pred |-> [ls |-> ls, vs |-> ValsOf(series.opt)]],
             SeriesDense_retain_labels(series, ls))

\* dense.retain_values(pred), pred(v) being v \in vs
DenseRetainValues(vs) ==
    Returned([op |-> "dense_retain_values", pred |-> [ls |-> Labels, vs |-> vs]],
             SeriesDense_retain_values(series, vs))

DenseNext ==
    \/ SUnborn /\ \E opt \in BOOLEAN : \E pairs \in PairsOf(opt) :
          DenseFromPairs(opt, pairs)
    \/ SReady /\ \E t \in 0..MaxLabel : \E w \in ValsOf(series.opt) : DenseRetain(t, w)
    \/ SReady /\ \E ls \in SUBSET Labels : DenseRetainLabels(ls)
    \/ SReady /\ \E vs \in SUBSET ValsOf(series.opt) : DenseRetainValues(vs)
    \/ SeriesReturn

SpecDense == Init /\ [][DenseNext]_vars

\* ----------------------------------------------------- properties: Index

\* The labels an Index holds, and what "no two equal labels" means.
LabelSet(ix) == {ix[i] : i \in 1..Len(ix)}
NoDuplicates(ix) == \A i, j \in 1..Len(ix) : ix[i] = ix[j] => i = j
\* The place of the first occurrence of l in items.
FirstAt(items, l) ==
    CHOOSE i \in 1..Len(items) :
        items[i] = l /\ \A j \in 1..(i - 1) : items[j] # l
\* The zero-based position of a label that ix holds.
PosOf(ix, l) == (CHOOSE i \in 1..Len(ix) : ix[i] = l) - 1

\* C4: whatever sequence of new, from_iter, push, sort, sort_by, sort_by_key,
\* reverse and clear has run, the Index holds no two equal labels; an Index
\* built from an iterable holds every distinct item of it once, ordered by
\* first occurrence.
C4_DuplicateFree ==
    /\ NoDuplicates(index)
    /\ icall.op = "from_iter" =>
        /\ LabelSet(index) = LabelSet(icall.items)
        /\ \A i, j \in 1..Len(index) :
              i < j => FirstAt(icall.items, index[i]) < FirstAt(icall.items, index[j])

C4_Witness ==
    /\ icall.op = "from_iter"
    /\ Len(icall.items) = 3
    /\ Len(index) = 2
    /\ icall.items[1] = icall.items[3]

\* C5: push of an absent label returns true, grows the Index by one, puts
\* the label at position old_len and moves no other label; push of a label
\* already present returns false and leaves the Index as it was.
C5_PushFrame ==
    icall.op = "push" =>
        IF icall.key \in LabelSet(icall.pre)
        THEN icall.ret = FALSE /\ index = icall.pre
        ELSE /\ icall.ret = TRUE
             /\ Len(index) = Len(icall.pre) + 1
             /\ index[Len(icall.pre) + 1] = icall.key
             /\ \A i \in 1..Len(icall.pre) : index[i] = icall.pre[i]

C5_Witness ==
    /\ icall.op = "push"
    /\ icall.ret = TRUE
    /\ Len(icall.pre) = 2
    /\ icall.pre[1] > icall.pre[2]

\* C6 (as amended): position lookup is index_of, and it is the inverse of
\* iloc: iloc(pos) is None exactly when pos >= len and otherwise a label
\* whose index_of is pos; index_of(l) is None for an absent label and
\* otherwise a position whose iloc is l; loc(l) is Some(l) itself for a
\* contained label and None for an absent one.
C6_LookupInverse ==
    /\ icall.op = "iloc" =>
        /\ icall.ret = None <=> icall.pos >= Len(index)
        /\ icall.ret # None => Index_index_of(index, Unwrap(icall.ret)) = Some(icall.pos)
    /\ icall.op = "index_of" =>
        IF icall.label \in LabelSet(index)
        THEN icall.ret # None /\ Index_iloc(index, Unwrap(icall.ret)) = Some(icall.label)
        ELSE icall.ret = None
    /\ icall.op = "loc" =>
        icall.ret = IF icall.label \in LabelSet(index) THEN Some(icall.label) ELSE None

C6_Witness ==
    /\ icall.op = "iloc"
    /\ icall.pos = 2
    /\ icall.ret = Some(1)

\* C6 (as claimed): for every position p < len, loc(iloc(p)) == Some(p), and
\* for every contained label l, iloc(loc(l)) == Some(l).
C6_Original ==
    /\ \A p \in 0..(Len(index) - 1) :
          Index_loc(index, Unwrap(Index_iloc(index, p))) = Some(p)
    /\ \A l \in LabelSet(index) :
          Index_iloc(index, Unwrap(Index_loc(index, l))) = Some(l)

\* The resolution table of a range: a bound's position is the position given
\* (iloc_range) or the position of the label given (loc_range).
IsRangeCall == icall.op \in {"iloc_range", "loc_range"}
BoundResolves(b) ==
    \/ b.kind = "Unbounded"
    \/ icall.op = "iloc_range"
    \/ b.v \in LabelSet(index)
BoundPos(b) == IF icall.op = "iloc_range" THEN b.v ELSE PosOf(index, b.v)
TableStart(b) ==
    CASE b.kind = "Included" -> BoundPos(b)
      [] b.kind = "Excluded" -> BoundPos(b) + 1
      [] b.kind = "Unbounded" -> 0
TableEnd(b) ==
    CASE b.kind = "Included" -> BoundPos(b) + 1
      [] b.kind = "Excluded" -> BoundPos(b)
      [] b.kind = "Unbounded" -> Len(index)
\* An endpoint is valid when its label is in the Index and the position the
\* table gives for it lies within 0..len.
StartValid(b) == BoundResolves(b) /\ TableStart(b) <= Len(index)
EndValid(b) == BoundResolves(b) /\ TableEnd(b) <= Len(index)

\* The Index of the source's tests, "ideographs", with a letter's place in
\* the alphabet for the letter; 'x' is 24.
Ideographs == <<9, 4, 5, 15, 7, 18, 1, 16, 8, 19>>

\* C7 (as amended): iloc_range and loc_range resolve their bounds to [s, e)
\* by the table and, when both endpoints are valid, return Some of the
\* labels at positions s, s+1, ..., e-1 in that order, Some(empty) when
\* s >= e; loc_range(&20..&40) on Index [10,20,30,40,50] is Some([20,30]).
C7_RangeLabels ==
    /\ (IsRangeCall /\ StartValid(icall.sb) /\ EndValid(icall.eb)) =>
          LET s == TableStart(icall.sb)
              e == TableEnd(icall.eb)
          IN icall.ret = Some([i \in 1..(IF e > s THEN e - s ELSE 0) |-> index[s + i]])
    /\ Index_loc_range(<<10, 20, 30, 40, 50>>, Included(20), Excluded(40))
          = Some(<<20, 30>>)

C7_Witness ==
    /\ icall.op = "loc_range"
    /\ icall.sb.kind = "Excluded"
    /\ icall.eb.kind = "Included"
    /\ icall.ret # None
    /\ Len(Unwrap(icall.ret)) = 2

\* C7 (as claimed): when both endpoints are valid the result is Some of the
\* positions s, s+1, ..., e-1.
C7_Original ==
    (IsRangeCall /\ StartValid(icall.sb) /\ EndValid(icall.eb)) =>
        icall.ret = Some(RangeSeq(TableStart(icall.sb), TableEnd(icall.eb)))

\* C8: iloc_range and loc_range return None as soon as one endpoint is
\* invalid (its label is not in the Index, or its position is out of
\* range), whatever the other endpoint is and also when start >= end:
\* loc_range('x'..'x') is None while loc_range('g'..'g') is Some([]), and
\* iloc_range(42..9) on a 10-label Index is None.
C8_RangeValidated ==
    /\ (IsRangeCall /\ ~(StartValid(icall.sb) /\ EndValid(icall.eb))) =>
          icall.ret = None
    /\ Index_loc_range(Ideographs, Included(24), Excluded(24)) = None
    /\ Index_loc_range(Ideographs, Included(7), Excluded(7)) = Some(<<>>)
    /\ Index_iloc_range(Ideographs, Included(42), Excluded(9)) = None

\* An invalid start with a valid end before it: the interval would be empty.
C8_Witness ==
    /\ icall.op = "iloc_range"
    /\ icall.sb = Included(Len(index) + 1)
    /\ icall.eb = Excluded(1)
    /\ Len(index) = 2
    /\ icall.ret = None

\* What one key of a *_multi lookup gives: the label at a valid position,
\* the label itself when the Index holds it, nothing otherwise.
KeyValid(byPos, k) == IF byPos THEN k < Len(index) ELSE k \in LabelSet(index)
KeyResult(byPos, k) == IF byPos THEN index[k + 1] ELSE k

\* C9: the eager iloc_multi and loc_multi return None if any key is invalid,
\* wherever it stands, and otherwise Some of one result per key in the
\* order of the keys, a repeated key giving a repeated result; no keys
\* give Some(empty).
C9_MultiAllOrNothing ==
    icall.op \in {"iloc_multi", "loc_multi"} =>
        LET byPos == icall.op = "iloc_multi"
            keys == icall.keys
        IN IF \E i \in 1..Len(keys) : ~KeyValid(byPos, keys[i])
           THEN icall.ret = None
           ELSE icall.ret = Some([i \in 1..Len(keys) |-> KeyResult(byPos, keys[i])])

C9_Witness ==
    /\ icall.op = "iloc_multi"
    /\ Len(icall.keys) = 3
    /\ icall.keys[1] = icall.keys[3]
    /\ icall.keys[1] # icall.keys[2]
    /\ icall.ret # None

\* C10: the lazy ILocMulti and LocMulti yield one item per key, in the
\* order of the keys (from the back for next_back): Some(result) for a
\* valid key and None for an invalid one; an invalid key neither ends the
\* iteration nor changes the items of the keys after it, and the iteration
\* ends only when every key has given its item.
C10_LazyPerElement ==
    miter # NoIter =>
        LET byPos == miter.kind = "ILocMulti"
            n == Len(miter.input)
            f == Len(miter.front)
            b == Len(miter.back)
            Item(k) == IF KeyValid(byPos, k) THEN Some(KeyResult(byPos, k)) ELSE None
        IN /\ f + b + Len(miter.keys) = n
           /\ \A i \in 1..f : miter.front[i] = Item(miter.input[i])
           /\ \A j \in 1..b : miter.back[j] = Item(miter.input[n + 1 - j])
           /\ miter.ended => f + b = n

\* An invalid key first, then a valid one, and the iteration run to its end.
C10_Witness ==
    /\ miter # NoIter
    /\ miter.kind = "ILocMulti"
    /\ miter.ended
    /\ Len(miter.input) = 3
    /\ Len(index) = 2
    /\ miter.front = <<None, Some(index[1]), None>>

\* The labels of ix that satisfy keep[l], in ix's order.
LabelsWhere(ix, keep) == SelectSeq(ix, LAMBDA l : keep[l])
\* Membership in an Index, as a function of the label.
InIndex(ix) == [l \in Labels |-> l \in LabelSet(ix)]
NotInIndex(ix) == [l \in Labels |-> l \notin LabelSet(ix)]
\* A sequence of labels of ix that follows ix's order.
InOrderOf(ix, r) ==
    \A i, j \in 1..Len(r) : i < j => PosOf(ix, r[i]) < PosOf(ix, r[j])

\* C11: bloc(mask) is None when the mask and the Index differ in length;
\* otherwise it is Some of the labels at the positions whose mask entry is
\* true, by ascending position (an all-false mask gives Some of nothing).
C11_BlocLabels ==
    icall.op = "bloc" =>
        IF Len(icall.bools) # Len(index) THEN icall.ret = None
        ELSE /\ IsSome(icall.ret)
             /\ LabelSet(Unwrap(icall.ret)) =
                   {index[i] : i \in {j \in 1..Len(index) : icall.bools[j]}}
             /\ Len(Unwrap(icall.ret)) = Cardinality({j \in 1..Len(index) : icall.bools[j]})
             /\ InOrderOf(index, Unwrap(icall.ret))

\* A mask that picks the first and the last of three labels.
C11_Witness ==
    /\ icall.op = "bloc"
    /\ Len(index) = 3
    /\ icall.bools = <<TRUE, FALSE, TRUE>>
    /\ icall.ret = Some(<<index[1], index[3]>>)

\* C11 (as claimed): with a mask of the right length bloc is Some of the
\* positions whose mask entry is true, ascending.
C11_Original ==
    (icall.op = "bloc" /\ Len(icall.bools) = Len(index)) =>
        /\ IsSome(icall.ret)
        /\ Len(Unwrap(icall.ret)) = Cardinality({j \in 1..Len(index) : icall.bools[j]})
        /\ \A k \in 1..Len(Unwrap(icall.ret)) :
              /\ Unwrap(icall.ret)[k] \in 0..(Len(index) - 1)
              /\ icall.bools[Unwrap(icall.ret)[k] + 1]
        /\ \A i, j \in 1..Len(Unwrap(icall.ret)) :
              i < j => Unwrap(icall.ret)[i] < Unwrap(icall.ret)[j]

\* C12: difference(A, B) gives the labels of A that B does not contain, each
\* once, in A's order; difference(A, A) gives nothing.
C12_Difference ==
    icall.op = "difference" =>
        /\ icall.ret = LabelsWhere(index, NotInIndex(icall.other))
        /\ NoDuplicates(icall.ret)
        /\ icall.other = index => icall.ret = <<>>

\* Two labels of three survive, against their natural order.
C12_Witness ==
    /\ icall.op = "difference"
    /\ Len(index) = 3
    /\ Len(icall.other) = 1
    /\ Len(icall.ret) = 2
    /\ icall.ret[1] > icall.ret[2]

\* C13: intersection(A, B) gives the labels of A that B contains too, each
\* once, in A's order and not B's; intersection(A, A) gives A's labels.
C13_Intersection ==
    icall.op = "intersection" =>
        /\ icall.ret = LabelsWhere(index, InIndex(icall.other))
        /\ NoDuplicates(icall.ret)
        /\ InOrderOf(index, icall.ret)
        /\ icall.other = index => icall.ret = index

\* Two common labels that the two Indexes hold in opposite orders.
C13_Witness ==
    /\ icall.op = "intersection"
    /\ Len(icall.ret) = 2
    /\ PosOf(icall.other, icall.ret[1]) > PosOf(icall.other, icall.ret[2])

\* C14: union(A, B) gives A's labels in A's order, then the labels of B that
\* A does not contain in B's order; no label comes twice, the labels are
\* those of A and B together, and union(A, A) gives A's labels.
C14_Union ==
    icall.op = "union" =>
        /\ icall.ret = index \o LabelsWhere(icall.other, NotInIndex(index))
        /\ NoDuplicates(icall.ret)
        /\ LabelSet(icall.ret) = LabelSet(index) \cup LabelSet(icall.other)
        /\ icall.other = index => icall.ret = index

\* The two Indexes share a label and each has one of its own.
C14_Witness ==
    /\ icall.op = "union"
    /\ Len(index) = 2
    /\ Len(icall.other) = 2
    /\ Len(icall.ret) = 3

\* C15: symmetric_difference(A, B) gives difference(A, B) and then
\* difference(B, A): the labels that one of A, B holds and the other does
\* not, each once.
C15_SymmetricDifference ==
    icall.op = "symmetric_difference" =>
        /\ icall.ret = LabelsWhere(index, NotInIndex(icall.other))
                          \o LabelsWhere(icall.other, NotInIndex(index))
        /\ icall.ret = Diff_collect(Index_difference(index, icall.other), <<>>)
                          \o Diff_collect(Index_difference(icall.other, index), <<>>)
        /\ NoDuplicates(icall.ret)
        /\ LabelSet(icall.ret) =
              (LabelSet(index) \cup LabelSet(icall.other))
                 \ (LabelSet(index) \cap LabelSet(icall.other))

\* The two Indexes share a label and each has one of its own.
C15_Witness ==
    /\ icall.op = "symmetric_difference"
    /\ Len(index) = 2
    /\ Len(icall.other) = 2
    /\ Len(icall.ret) = 2
    /\ icall.ret[1] \in LabelSet(index)
    /\ icall.ret[2] \in LabelSet(icall.other)

\* C16: is_subset(A, B) holds exactly when B contains every label of A, in
\* whatever order (the empty Index is a subset of every Index);
\* is_strict_subset(A, B) asks len(A) < len(B) besides; and
\* is_subset(A, B) = is_superset(B, A).
C16_Subset ==
    LET Within(a, b) == LabelSet(a) \subseteq LabelSet(b)
    IN /\ icall.op = "is_subset" =>
            /\ icall.ret <=> Within(index, icall.other)
            /\ icall.ret = Index_is_superset(icall.other, index)
            /\ index = <<>> => icall.ret
       /\ icall.op = "is_strict_subset" =>
            /\ icall.ret <=> (Within(index, icall.other) /\ Len(index) < Len(icall.other))
            /\ icall.ret = Index_is_strict_superset(icall.other, index)
       /\ icall.op = "is_superset" =>
            /\ icall.ret <=> Within(icall.other, index)
            /\ icall.ret = Index_is_subset(icall.other, index)
       /\ icall.op = "is_strict_superset" =>
            /\ icall.ret <=> (Within(icall.other, index) /\ Len(icall.other) < Len(index))
            /\ icall.ret = Index_is_strict_subset(icall.other, index)

\* The same two labels in opposite orders: a subset, not a strict one.
C16_Witness ==
    /\ icall.op = "is_strict_subset"
    /\ Len(index) = 2
    /\ icall.other = <<index[2], index[1]>>
    /\ icall.ret = FALSE
    /\ Index_is_subset(index, icall.other)

C18_SortAscending ==
    /\ icall.op = "sort" =>
          /\ Index_is_sorted(index)
          /\ \A i, j \in 1..Len(index) : i < j => index[i] < index[j]
          /\ LabelSet(index) = LabelSet(icall.pre)
          /\ Len(index) = Len(icall.pre)
    /\ icall.op = "is_sorted" =>
          (icall.ret <=> \A i, j \in 1..Len(index) : i < j => index[i] < index[j])

\* Three labels that were in descending order.
C18_Witness ==
    /\ icall.op = "sort"
    /\ Len(icall.pre) = 3
    /\ icall.pre[1] > icall.pre[2]
    /\ icall.pre[2] > icall.pre[3]

\* The Index of the arg_sort example and its sorting permutation.
ArgSortExample == <<9, 5, 3, 8, 6, 0, 1, 2, 7, 4>>
ArgSortExpected == <<5, 6, 7, 2, 9, 1, 4, 8, 3, 0>>

\* C19: arg_sort, arg_sort_by and arg_sort_by_key give the stable sorting
\* permutation and leave the Index alone: every position of [0, len) once,
\* the labels read in that order never decrease under the comparison,
\* labels that compare equal keep their order of position, and the Index is
\* as it was; arg_sort of [9,5,3,8,6,0,1,2,7,4] is [5,6,7,2,9,1,4,8,3,0].
C19_ArgSort ==
    /\ icall.op = "arg_sort" => Index_arg_sort(ArgSortExample) = ArgSortExpected
    /\ icall.op \in {"arg_sort", "arg_sort_by", "arg_sort_by_key"} =>
          LET r == icall.ret
              LabelAt(p) == index[p + 1]
          IN /\ index = icall.pre
             /\ Len(r) = Len(index)
             /\ {r[i] : i \in 1..Len(r)} = 0..(Len(index) - 1)
             /\ \A i, j \in 1..Len(r) :
                   i < j =>
                      /\ OrderOf(icall.by, LabelAt(r[i]), LabelAt(r[j])) # "Greater"
                      /\ OrderOf(icall.by, LabelAt(r[i]), LabelAt(r[j])) = "Equal"
                            => r[i] < r[j]

\* A key function under which the first and the last of three labels tie
\* and the middle one comes first.
C19_Witness ==
    /\ icall.op = "arg_sort_by_key"
    /\ icall.by = ByKey("parity")
    /\ Len(index) = 3
    /\ icall.ret = <<1, 0, 2>>

\* C20: reverse turns the order of the labels round in place: the label at
\* position p goes to position len-1-p, none is added or lost, and a second
\* reverse gives back the Index there was.
C20_Reverse ==
    icall.op = "reverse" =>
        /\ Len(index) = Len(icall.pre)
        /\ \A p \in 0..(Len(index) - 1) : index[Len(index) - p] = icall.pre[p + 1]
        /\ LabelSet(index) = LabelSet(icall.pre)
        /\ Index_reverse(index) = icall.pre

\* Three labels reversed.
C20_Witness ==
    /\ icall.op = "reverse"
    /\ Len(icall.pre) = 3
    /\ index[1] = icall.pre[3]
    /\ index[1] # icall.pre[1]

\* C26: iloc_range on an Index of n labels accepts a resolved start or end
\* position exactly when it is <= n.  A start that resolves to n, or an
\* exclusive end equal to n, is valid (the result is Some, and empty when
\* the start is n); a resolved position beyond n gives None.  On the empty
\* Index 0..0, 0.. and ..0 give Some([]) and 0..=0 and ..=0 give None; on a
\* one-label Index 1..1 gives Some([]) and 1..=1, 2..2 and 2.. give None.
C26_NoduleAccepted ==
    icall.op = "iloc_range" =>
        LET n == Len(index)
            s == TableStart(icall.sb)
            e == TableEnd(icall.eb)
        IN /\ icall.ret # None <=> (s <= n /\ e <= n)
           /\ (s = n /\ e <= n) => icall.ret = Some(<<>>)
           /\ Index_iloc_range(<<>>, Included(0), Excluded(0)) = Some(<<>>)
           /\ Index_iloc_range(<<>>, Included(0), Unbounded) = Some(<<>>)
           /\ Index_iloc_range(<<>>, Unbounded, Excluded(0)) = Some(<<>>)
           /\ Index_iloc_range(<<>>, Included(0), Included(0)) = None
           /\ Index_iloc_range(<<>>, Unbounded, Included(0)) = None
           /\ Index_iloc_range(<<1>>, Included(1), Excluded(1)) = Some(<<>>)
           /\ Index_iloc_range(<<1>>, Included(1), Included(1)) = None
           /\ Index_iloc_range(<<1>>, Included(2), Excluded(2)) = None
           /\ Index_iloc_range(<<1>>, Included(2), Unbounded) = None

\* n..n on an Index of n = 2 labels: both positions equal the length and
\* the result is Some of no labels.
C26_Witness ==
    /\ icall.op = "iloc_range"
    /\ Len(index) = 2
    /\ icall.sb = Included(2)
    /\ icall.eb = Excluded(2)
    /\ icall.ret = Some(<<>>)

\* The positions a pair of position bounds resolves to, by the table.
ResolvedStart(sb) ==
    CASE sb.kind = "Included" -> sb.v
      [] sb.kind = "Excluded" -> sb.v + 1
      [] sb.kind = "Unbounded" -> 0
ResolvedEnd(eb, n) ==
    CASE eb.kind = "Included" -> eb.v + 1
      [] eb.kind = "Excluded" -> eb.v
      [] eb.kind = "Unbounded" -> n

\* C27 (as claimed): ILocRange::new validates its bounds against the Index,
\* also when the range would be empty: it gives None when the start or the
\* end position is out of range for the Index, so that every position an
\* ILocRange yields is a position of the Index, below index.len().
C27_RangeValidated ==
    liter.kind = "ILocRange" =>
        LET n == Len(index)
        IN /\ (ResolvedStart(liter.input.sb) > n \/ ResolvedEnd(liter.input.eb, n) > n)
                 => liter.it = None
           /\ \A i \in 1..Len(liter.front) : liter.front[i] < n
           /\ \A i \in 1..Len(liter.back) : liter.back[i] < n

\* The labels a set-algebra iterator gives when it is run forward from new.
ForwardLabels ==
    CASE liter.kind = "Diff" -> Diff_collect(Index_difference(index, liter.input), <<>>)
      [] liter.kind = "SymDiff" ->
             SymDiff_collect(Index_symmetric_difference(index, liter.input), <<>>)
      [] liter.kind = "Inter" -> Inter_collect(Index_intersection(index, liter.input), <<>>)
      [] liter.kind = "Union" -> Union_collect(Index_union(index, liter.input), <<>>)
\* What the next call of next() and of next_back() would return.
NextItem ==
    CASE liter.kind = "Diff" -> Diff_next(Unwrap(liter.it)).item
      [] liter.kind = "SymDiff" -> SymDiff_next(Unwrap(liter.it)).item
      [] liter.kind = "Inter" -> Inter_next(Unwrap(liter.it)).item
      [] liter.kind = "Union" -> Union_next(Unwrap(liter.it)).item
NextBackItem ==
    CASE liter.kind = "Diff" -> Diff_next_back(Unwrap(liter.it)).item
      [] liter.kind = "SymDiff" -> SymDiff_next_back(Unwrap(liter.it)).item
      [] liter.kind = "Inter" -> Inter_next_back(Unwrap(liter.it)).item
      [] liter.kind = "Union" -> Union_next_back(Unwrap(liter.it)).item

\* C28: the iterators of difference, symmetric_difference, intersection
\* and union are single-pass and double-ended.  Whatever the interleaving
\* of next() and next_back(), the labels next() has returned are a prefix
\* of the forward sequence, in order; those next_back() has returned are a
\* suffix of it, last label first; the two never overlap, so no label is
\* returned twice; when a call has returned None every label has been
\* returned once, and every later next() or next_back() returns None too.
C28_DoubleEnded ==
    liter.kind \in {"Diff", "SymDiff", "Inter", "Union"} =>
        LET e == ForwardLabels
            n == Len(e)
            f == Len(liter.front)
            b == Len(liter.back)
        IN /\ f + b <= n
           /\ \A i \in 1..f : liter.front[i] = e[i]
           /\ \A j \in 1..b : liter.back[j] = e[n + 1 - j]
           /\ NoDuplicates(liter.front \o liter.back)
           /\ f + b < n => (~liter.ended /\ NextItem = Some(e[f + 1])
                              /\ NextBackItem = Some(e[n - b]))
           /\ liter.ended => (f + b = n /\ NextItem = None /\ NextBackItem = None)

\* A union of three labels has been taken from both ends until a call
\* returned None: one label by next(), two by next_back(), the first of
\* these from the other Index and the second from the Index itself.
C28_Witness ==
    /\ liter.kind = "Union"
    /\ liter.ended
    /\ Len(liter.front) = 1
    /\ Len(liter.back) = 2
    /\ liter.back[1] \notin LabelSet(index)
    /\ liter.back[2] \in LabelSet(index)
    /\ liter.front[1] \in LabelSet(liter.input)

\* ---------------------------------------------------- properties: Series

\* The value s pairs with a label it holds.
PairedIn(s, l) == s.values[PosOf(s.index, l) + 1]
\* The value of the last of the pairs that carries the label l.
LastPaired(pairs, l) ==
    pairs[CHOOSE i \in 1..Len(pairs) :
              pairs[i][1] = l /\ \A j \in (i + 1)..Len(pairs) : pairs[j][1] # l][2]
\* The call that has just returned is a method of an existing Series.
IsMethodCall == "pre" \in DOMAIN scall
\* The call that has just returned built a Series.
Built == scall.op \notin {"none", "idle"} /\ ~IsMethodCall /\ scall.ret.tag = "Ok"

\* What the operation that has just returned leaves of the pairing.
PairingKept ==
    LET op == scall.op
        n == Len(series.index)
    IN CASE op = "new" -> series.index = <<>> /\ series.values = <<>>
         [] op = "from_iter_checked" -> Series_iter(series) = scall.pairs
         [] op = "from_values" ->
                series.index = scall.index /\ series.values = scall.values
         [] op = "from_iter" ->
                /\ LabelSet(series.index) = {scall.pairs[i][1] : i \in 1..Len(scall.pairs)}
                /\ \A i \in 1..n :
                      series.values[i] = LastPaired(scall.pairs, series.index[i])
         [] op = "clear" -> series.index = <<>> /\ series.values = <<>>
         [] op \in {"retain", "retain_labels", "retain_values"} ->
                /\ LabelSet(series.index) \subseteq LabelSet(scall.pre.index)
                /\ \A i \in 1..n :
                      series.values[i] = PairedIn(scall.pre, series.index[i])
         [] op = "map" ->
                /\ series.index = scall.pre.index
                /\ \A i \in 1..n :
                      series.values[i] = ApplyMap(scall.f, scall.pre.opt, scall.pre.values[i])
         [] op = "fill_none" ->
                /\ series.index = scall.pre.index
                /\ \A i \in 1..n :
                      series.values[i] = IF scall.pre.values[i] = None THEN scall.value
                                         ELSE Unwrap(scall.pre.values[i])
         [] op = "fill_none_with" ->
                /\ series.index = scall.pre.index
                /\ \A i \in 1..n :
                      IF scall.pre.values[i] = None THEN series.values[i] \in Vals
                      ELSE series.values[i] = Unwrap(scall.pre.values[i])
         [] op = "drop_none" ->
                /\ LabelSet(series.index) =
                      {scall.pre.index[i] : i \in {j \in 1..Len(scall.pre.index) :
                                                      scall.pre.values[j] # None}}
                /\ \A i \in 1..n :
                      Some(series.values[i]) = PairedIn(scall.pre, series.index[i])
         [] op = "values_mut" ->
                /\ series.index = scall.pre.index
                /\ \A i \in 1..n :
                      series.values[i] = IF i = scall.pos + 1 THEN scall.value
                                         ELSE scall.pre.values[i]
         [] op = "iloc_mut" ->
                /\ series.index = scall.pre.index
                /\ scall.found <=> scall.pos < Len(scall.pre.index)
                /\ \A i \in 1..n :
                      series.values[i] = IF i = scall.pos + 1 THEN scall.value
                                         ELSE scall.pre.values[i]
         [] op = "loc_mut" ->
                /\ series.index = scall.pre.index
                /\ scall.found <=> scall.label \in LabelSet(scall.pre.index)
                /\ \A i \in 1..n :
                      series.values[i] = IF series.index[i] = scall.label THEN scall.value
                                         ELSE scall.pre.values[i]
         [] OTHER -> series = scall.pre

\* C1: after new, from_iter_checked, from_values, from_iter, clear, retain,
\* retain_labels, retain_values, map, fill_none, fill_none_with, drop_none
\* and every write through values_mut, iloc_mut or loc_mut, the Series has
\* as many values as labels, assert_len has not fired, and the value at
\* each position is the one that belongs to the label at that position:
\* the value the label came with, passed through the operation.
C1_LengthAndPairing ==
    /\ Len(series.index) = Len(series.values)
    /\ NoDuplicates(series.index)
    /\ (Built \/ IsMethodCall) => ~scall.panic /\ PairingKept

\* retain has dropped one pair of three and left two pairs with different
\* values.
C1_Witness ==
    /\ scall.op = "retain"
    /\ Len(scall.pre.index) = 3
    /\ Len(series.index) = 2
    /\ Len(series.values) = 2
    /\ series.values[1] # series.values[2]

\* The pairs of s the predicate accepts, in their order.
PairsWhere(s, pred) ==
    SelectSeq(Series_iter(s), LAMBDA pr : PredHolds(pred, pr[1], pr[2]))

\* C2: retain(pred) keeps exactly the label/value pairs for which pred
\* returns true, in their order and each label with its value; retain_labels
\* and retain_values do the same with a predicate on the label only or on
\* the value only.
C2_RetainKeepsAccepted ==
    scall.op \in {"retain", "retain_labels", "retain_values"} =>
        Series_iter(series) = PairsWhere(scall.pre, scall.pred)

\* C3: concat_checked returns Err(OverlappingIndex) whenever the index of
\* self and the index of other share a label.
C3_OverlapRejected ==
    (/\ scall.op = "concat_checked"
     /\ LabelSet(scall.pre.index) \cap LabelSet(scall.other.index) # {})
        => scall.ret = OverlappingIndex

\* The positions (1-based) of the pairs whose label an earlier pair carries.
Repeats(pairs) ==
    {j \in 1..Len(pairs) : \E i \in 1..(j - 1) : pairs[i][1] = pairs[j][1]}
\* The first of a non-empty set of positions.
FirstOf(ps) == CHOOSE j \in ps : \A k \in ps : j <= k

\* The pairs of the example of from_iter_checked: labels 0, 1, 0.
FromIterCheckedExample == <<<<0, Some(1)>>, <<1, None>>, <<0, Some(2)>>>>

\* C21: from_iter_checked returns Err(DuplicateIndexLabel { label }) for the
\* label of the first pair, in input order, whose label an earlier pair
\* carries, and then hands out no Series, partial or whole; when no label
\* repeats it returns Ok with a Series whose pairs are the input pairs in
\* input order. [(0, Some a), (1, None), (0, Some b)] is rejected with label 0.
C21_FromIterChecked ==
    scall.op = "from_iter_checked" =>
        /\ IF Repeats(scall.pairs) # {}
           THEN /\ scall.ret =
                      DuplicateIndexLabel(scall.pairs[FirstOf(Repeats(scall.pairs))][1])
                /\ DOMAIN Series_from_iter_checked(scall.pairs, TRUE) = {"ret"}
                /\ series = Series_new(TRUE)
           ELSE /\ scall.ret = Ok
                /\ ~scall.panic
                /\ Series_iter(series) = scall.pairs
        /\ Series_from_iter_checked(FromIterCheckedExample, TRUE).ret =
              DuplicateIndexLabel(0)

\* Three pairs whose third label repeats the first are rejected with it.
C21_Witness ==
    /\ scall.op = "from_iter_checked"
    /\ Len(scall.pairs) = 3
    /\ scall.pairs[1][1] = scall.pairs[3][1]
    /\ scall.pairs[2][1] # scall.pairs[1][1]
    /\ scall.ret = DuplicateIndexLabel(scall.pairs[1][1])

\* C22: from_values returns Err(LengthMismatch) exactly when the index and
\* the values differ in length, the error carrying the index and the values
\* it was given, unmodified, and no Series being built; when the lengths are
\* equal it returns Ok of a Series with that index and those values.
C22_FromValues ==
    scall.op = "from_values" =>
        IF Len(scall.index) # Len(scall.values)
        THEN /\ scall.ret = LengthMismatch(scall.index, scall.values)
             /\ scall.ret.index = scall.index
             /\ scall.ret.values = scall.values
             /\ series = Series_new(TRUE)
        ELSE /\ scall.ret = Ok
             /\ ~scall.panic
             /\ series.index = scall.index
             /\ series.values = scall.values

\* Two labels and three values are handed back inside the error.
C22_Witness ==
    /\ scall.op = "from_values"
    /\ Len(scall.index) = 2
    /\ Len(scall.values) = 3
    /\ scall.ret.tag = "Err"
    /\ scall.ret.index = scall.index
    /\ scall.ret.values = scall.values

\* How many of the values ahead of position i (1-based) are None.
NonesBefore(values, i) == Cardinality({j \in 1..(i - 1) : values[j] = None})

\* C23: fill_none(value) and fill_none_with(fn) leave the index as it was
\* (same labels, same order) and as many values as before; every Some(v)
\* has become v and every None has become value, respectively the result
\* of fn.  fn is called once per None, never for a Some, front to back:
\* the k-th result of a stateful fn is at the position of the k-th None.
C23_FillNone ==
    scall.op \in {"fill_none", "fill_none_with"} =>
        /\ ~scall.panic
        /\ series.index = scall.pre.index
        /\ Len(series.values) = Len(scall.pre.values)
        /\ ~series.opt
        /\ \A i \in 1..Len(scall.pre.values) :
              series.values[i] =
                  IF scall.pre.values[i] # None THEN Unwrap(scall.pre.values[i])
                  ELSE IF scall.op = "fill_none" THEN scall.value
                  ELSE CounterFn(scall.first)[NonesBefore(scall.pre.values, i)]

\* A stateful fn has filled two Nones that follow a Some: its first result
\* is at the first None and its second, a different value, at the second.
C23_Witness ==
    /\ scall.op = "fill_none_with"
    /\ Len(scall.pre.values) = 3
    /\ scall.pre.values[1] # None
    /\ scall.pre.values[2] = None
    /\ scall.pre.values[3] = None
    /\ series.values[2] = CounterFn(scall.first)[0]
    /\ series.values[3] = CounterFn(scall.first)[1]
    /\ series.values[2] # series.values[3]

\* The pairs of s whose value is Some, unwrapped, in the order s has them.
SomePairs(s) ==
    LET kept == SelectSeq(Series_iter(s), LAMBDA pair : pair[2] # None)
    IN [i \in 1..Len(kept) |-> <<kept[i][1], Unwrap(kept[i][2])>>]

\* The Series of the example of drop_none: labels 0, 1, 2.
DropNoneExample == Series_of(<<0, 1, 2>>, <<Some(1), None, Some(2)>>, TRUE)

\* C24: drop_none returns exactly the pairs whose value was Some, unwrapped,
\* in the order they had; the labels of the None pairs are gone from the
\* index, so that index and values have the same length again; when no
\* value is None the index is the one the Series had.
\* [(0, Some a), (1, None), (2, Some b)] gives index [0, 2], values [a, b].
C24_DropNone ==
    scall.op = "drop_none" =>
        /\ ~scall.panic
        /\ ~series.opt
        /\ Series_iter(series) = SomePairs(scall.pre)
        /\ Len(series.index) = Len(series.values)
        /\ (\A i \in 1..Len(scall.pre.values) : scall.pre.values[i] # None)
              => series.index = scall.pre.index
        /\ Series_drop_none(DropNoneExample) =
              [series |-> Series_of(<<0, 2>>, <<1, 2>>, FALSE), panic |-> FALSE]

\* The None in the middle of three pairs has been dropped with its label.
C24_Witness ==
    /\ scall.op = "drop_none"
    /\ Len(scall.pre.values) = 3
    /\ scall.pre.values[1] # None
    /\ scall.pre.values[2] = None
    /\ scall.pre.values[3] # None
    /\ series.index = <<scall.pre.index[1], scall.pre.index[3]>>
    /\ series.values = <<Unwrap(scall.pre.values[1]), Unwrap(scall.pre.values[3])>>

\* What loc(label) must give on s: the value at the position of the label.
LocExpected(s, label) ==
    IF label \in LabelSet(s.index) THEN Some(PairedIn(s, label)) ELSE None

\* C25: on every Series the program can hold, loc(label) is Some of the
\* value at position index_of(label) when the index holds the label and
\* None otherwise; iloc(pos) is Some exactly when pos < len; and for every
\* position p < len, loc(index().iloc(p)) = iloc(p).  The calls of loc and
\* iloc return these values, and retain and drop_none, which renumber the
\* positions, leave a Series on which it all holds too.  The Series is
\* examined when it is built and whenever a call has changed it.
C25_LocIlocAgree ==
    /\ (IsMethodCall => series # scall.pre) =>
          /\ \A label \in QLabels : Series_loc(series, label) = LocExpected(series, label)
          /\ \A pos \in QPos :
                /\ IsSome(Series_iloc(series, pos)) <=> pos < Len(series.index)
                /\ pos < Len(series.index) =>
                      /\ Series_iloc(series, pos) = Some(series.values[pos + 1])
                      /\ Series_loc(series, Unwrap(Index_iloc(series.index, pos))) =
                            Series_iloc(series, pos)
    /\ scall.op = "loc" => scall.ret = LocExpected(scall.pre, scall.label)
    /\ scall.op = "iloc" =>
          scall.ret = IF scall.pos < Len(scall.pre.index)
                      THEN Some(scall.pre.values[scall.pos + 1]) ELSE None

\* A retain or drop_none has removed the first of three pairs: the label
\* that was at position 2 is now at position 1, and loc and iloc both give
\* the value it came with; the removed label gives None.
C25_Witness ==
    /\ scall.op \in {"retain", "retain_labels", "retain_values", "drop_none"}
    /\ Len(scall.pre.index) = 3
    /\ Len(series.index) = 2
    /\ series.index[2] = scall.pre.index[3]
    /\ Index_index_of(series.index, scall.pre.index[3]) = Some(1)
    /\ Series_loc(series, scall.pre.index[3]) = Series_iloc(series, 1)
    /\ Series_loc(series, scall.pre.index[3]) = Series_loc(scall.pre, scall.pre.index[3])
    /\ Series_loc(series, scall.pre.index[1]) = None
    /\ scall.pre.index[3] # 2

\* The labels of a sequence of pairs, in input order.
PairLabels(pairs) == [i \in 1..Len(pairs) |-> pairs[i][1]]

\* C30: Series::from_iter never fails and never panics, repeated labels or
\* not: the Series holds each label of the input once, the labels standing
\* in the order of their first occurrences, each paired with the value of
\* its last occurrence, and index and values both have as many entries as
\* the input has distinct labels.
C30_FromIterUnchecked ==
    scall.op = "from_iter" =>
        LET labels == PairLabels(scall.pairs)
            n == Cardinality(LabelSet(labels))
        IN /\ scall.ret = Ok
           /\ ~scall.panic
           /\ Len(series.index) = n
           /\ Len(series.values) = n
           /\ NoDuplicates(series.index)
           /\ LabelSet(series.index) = LabelSet(labels)
           /\ \A i, j \in 1..Len(series.index) :
                 i < j => FirstAt(labels, series.index[i]) < FirstAt(labels, series.index[j])
           /\ \A i \in 1..Len(series.index) :
                 series.values[i] = LastPaired(scall.pairs, series.index[i])

\* The first label comes back as the third pair with another value: it
\* stays ahead of the second label and carries the later value.
C30_Witness ==
    /\ scall.op = "from_iter"
    /\ Len(scall.pairs) = 3
    /\ scall.pairs[3][1] = scall.pairs[1][1]
    /\ scall.pairs[2][1] # scall.pairs[1][1]
    /\ scall.pairs[3][2] # scall.pairs[1][2]
    /\ series.index = <<scall.pairs[1][1], scall.pairs[2][1]>>
    /\ series.values = <<scall.pairs[3][2], scall.pairs[2][2]>>

\* C29 (as claimed): SeriesDense::retain(pred) leaves exactly the pairs for
\* which pred returned true, in the order they had, whatever the predicate
\* (one that is false for every pair and one that is true for every pair
\* included), and index and values have the same length afterwards; so do
\* retain_labels and retain_values, which call it.
C29_DenseRetain ==
    scall.op \in {"dense_retain", "dense_retain_labels", "dense_retain_values"} =>
        /\ ~scall.panic
        /\ Len(series.index) = Len(series.values)
        /\ Series_iter(series) = PairsWhere(scall.pre, scall.pred)

====
